---- MODULE Spec2Model ----
(***************************************************************************)
(* Workflow execution subsystem of apps/ai-service: the ExecutionContext,  *)
(* the NodeExecutor.run template, the WorkflowEngine scheduler and the     *)
(* ExecutionService (execution manager).                                   *)
(*                                                                         *)
(* A run of the engine is a record (the ExecutionContext together with the *)
(* locals of execute_workflow / _execute_graph and the position of every   *)
(* NodeExecutor.run coroutine).  Synchronous code is cut at the places     *)
(* where somebody else can look at the context: every invocation of the    *)
(* observer callback and every suspension (await) of a coroutine.          *)
(***************************************************************************)
EXTENDS Integers, Sequences, FiniteSets, TLC

VARIABLES
    runs,       \* sequence of engine runs (one ExecutionContext each)
    hist,       \* history of the runs: what was true when each node began
    resolved,   \* the last call of resolve_variables: text and result
    svc         \* the ExecutionService and the asyncio tasks it created

vars == <<runs, hist, resolved, svc>>

----------------------------------------------------------------------------
(* Bounds of the model *)

MaxEdges == 2

NodeIds == {"n1", "n2", "n3"}

\* node lists of the definitions tried; with <<"n1","n2">> the id "n3" is
\* an id that no node carries
NodeLists == {<<"n1", "n2">>, <<"n1", "n2", "n3">>}

EdgeSeqs == UNION {[1..k -> NodeIds \X NodeIds] : k \in 0..MaxEdges}

Range(s) == {s[i] : i \in 1..Len(s)}

----------------------------------------------------------------------------
(* Values: Python objects, boxed so that values of different types compare *)

None == [t |-> "none"]
\* a str value holds its text as a string of the resolver (see there); StrV
\* is the str of one run of ordinary characters
StrOf(pieces) == [t |-> "str", s |-> pieces]
StrV(s) == StrOf(<<s>>)
IntV(i) == [t |-> "int", i |-> i]
DictV(d) == [t |-> "dict", d |-> d]

Put(f, k, v) == [x \in (DOMAIN f) \cup {k} |-> IF x = k THEN v ELSE f[x]]

\* dict.get(key, default)
Get(f, k, default) == IF k \in DOMAIN f THEN f[k] ELSE default

EmptyMap == [x \in {} |-> None]

\* A string that may contain dots is the sequence of its dot-free segments:
\* "nodes.n1" is <<"nodes", "n1">>, "input" is <<"input">>.
Key(seg) == <<seg>>

\* the output an executor of node n produces on success
NodeOutput(n) == DictV(Put(EmptyMap, Key("result"), StrV(n)))

\* input_data of the engine runs
RunInput == DictV(Put(EmptyMap, Key("msg"), StrV("hi")))

----------------------------------------------------------------------------
(* Error messages: sequences of text fragments; containment is infix *)

Contains(msg, sub) ==
    \E i \in 0..(Len(msg) - Len(sub)) :
        \A j \in 1..Len(sub) : msg[i + j] = sub[j]

CallbackError == <<"callback raised">>
CircularError == <<"Workflow contains circular dependencies">>
NoStartError == <<"No start nodes found in workflow">>
NodeNotFoundError(n) == <<"Node not found: ", n>>
NotAllExecutedError == <<"Not all nodes were executed">>
DispatchError(n) == <<"cannot construct executor of ", n>>
ExecuteError(n) == <<"execute raised in ", n>>
ReturnedError(n) == <<"failed result of ", n>>

----------------------------------------------------------------------------
(* WorkflowEngine: the graph *)

RECURSIVE AppendNew(_, _)
\* append the elements of seq that keys does not hold yet, in order
AppendNew(keys, seq) ==
    IF seq = <<>> THEN keys
    ELSE AppendNew(IF Head(seq) \in Range(keys) THEN keys
                   ELSE Append(keys, Head(seq)), Tail(seq))

RECURSIVE Targets(_, _)
Targets(edges, k) ==
    IF edges = <<>> THEN <<>>
    ELSE (IF Head(edges)[1] = k THEN <<Head(edges)[2]>> ELSE <<>>)
         \o Targets(Tail(edges), k)

RECURSIVE Sources(_)
Sources(edges) ==
    IF edges = <<>> THEN <<>> ELSE <<Head(edges)[1]>> \o Sources(Tail(edges))

\* _build_execution_graph: a dict in insertion order, the node ids first,
\* then every edge source the defaultdict creates; adj[k] lists the targets
\* of k's edges in edge order (a duplicate edge is listed twice)
build_execution_graph(nodes, edges) ==
    LET keys == AppendNew(AppendNew(<<>>, nodes), Sources(edges))
    IN [keys |-> keys, adj |-> [k \in Range(keys) |-> Targets(edges, k)]]

\* graph.get(node, [])
Neighbors(g, node) == IF node \in DOMAIN g.adj THEN g.adj[node] ELSE <<>>

RECURSIVE dfs(_, _, _), dfs_loop(_, _, _, _)
\* the inner dfs of _has_cycle; st carries visited, rec_stack and the answer
dfs(g, node, st) ==
    dfs_loop(g, node, 1, [visited |-> st.visited \cup {node},
                          rec_stack |-> st.rec_stack \cup {node},
                          found |-> FALSE])

dfs_loop(g, node, i, st) ==
    IF i > Len(Neighbors(g, node))
    THEN [st EXCEPT !.rec_stack = @ \ {node}]
    ELSE LET neighbor == Neighbors(g, node)[i] IN
         IF neighbor \notin st.visited
         THEN LET r == dfs(g, neighbor, st) IN
              IF r.found THEN r ELSE dfs_loop(g, node, i + 1, r)
         ELSE IF neighbor \in st.rec_stack
              THEN [st EXCEPT !.found = TRUE]
              ELSE dfs_loop(g, node, i + 1, st)

RECURSIVE has_cycle_from(_, _, _)
has_cycle_from(g, i, st) ==
    IF i > Len(g.keys) THEN FALSE
    ELSE IF g.keys[i] \in st.visited THEN has_cycle_from(g, i + 1, st)
    ELSE LET r == dfs(g, g.keys[i], st) IN
         IF r.found THEN TRUE ELSE has_cycle_from(g, i + 1, r)

\* _has_cycle
has_cycle(g) ==
    has_cycle_from(g, 1, [visited |-> {}, rec_stack |-> {}, found |-> FALSE])

RECURSIVE Concat(_, _, _)
\* the targets of all adjacency lists, in graph.values() order
Concat(g, i, acc) ==
    IF i > Len(g.keys) THEN acc ELSE Concat(g, i + 1, acc \o g.adj[g.keys[i]])

Count(seq, x) == Cardinality({i \in 1..Len(seq) : seq[i] = x})

RECURSIVE Filter0(_, _)
Filter0(keys, deg) ==
    IF keys = <<>> THEN <<>>
    ELSE (IF deg[Head(keys)] = 0 THEN <<Head(keys)>> ELSE <<>>)
         \o Filter0(Tail(keys), deg)

\* _execute_graph, lines 281-288: in-degree per key (a target that is no key
\* of the graph gets an entry too) and the initial ready list
compute_in_degree(g) ==
    LET all == Concat(g, 1, <<>>)
        keys == AppendNew(g.keys, all)
    IN [keys |-> keys, deg |-> [k \in Range(keys) |-> Count(all, k)]]

initial_ready(ind) == Filter0(ind.keys, ind.deg)

----------------------------------------------------------------------------
(* ExecutionContext *)

\* the callback given to a run: "none" (no callback), "ok" (a callback that
\* returns), "raise_on_success" (raises on the node_status event of a
\* success), "raise_on_error_log" (raises on a log event of level error),
\* "raise_on_completed" (raises on the status event of complete()) and
\* "manager" (ExecutionService's status_callback)
EngineCallbacks == {"none", "ok", "raise_on_success", "raise_on_error_log",
                    "raise_on_completed", "manager"}

\* a status callback that takes the event and returns
status_callback_returns(event) == "return"

\* status_callback(node_id, status, data=None) is called by the context with
\* one positional argument, the event: binding the arguments raises TypeError
status_callback(event) == "raise"

\* what the call self.callback(event) does
Callback(cb, event) ==
    CASE cb = "none" -> "return"
      [] cb = "ok" -> "return"
      [] cb = "raise_on_success" ->
            IF event.type = "node_status" /\ event.status = "success"
            THEN "raise" ELSE "return"
      [] cb = "raise_on_error_log" ->
            IF event.type = "log" /\ event.level = "error"
            THEN "raise" ELSE "return"
      [] cb = "raise_on_completed" ->
            IF event.type = "status" /\ event.status = "completed"
            THEN "raise" ELSE "return"
      [] cb = "manager" -> status_callback(event)

Event(type, status, level) == [type |-> type, status |-> status, level |-> level]

NoResult == [kind |-> "none"]
ResultOf(n, status, output, error) ==
    [kind |-> "result", node_id |-> n, status |-> status, output |-> output,
     error |-> error]
ExceptionOf(error) == [kind |-> "exception", error |-> error]

\* ExecutionContext.__init__, with the locals of the engine's coroutines
NewContext(nodes, types, edges, cb, input_data) ==
    [nodes |-> nodes, types |-> types, edges |-> edges, cb |-> cb,
     status |-> "pending", started_at |-> 0, completed_at |-> 0,
     error |-> <<>>,
     variables |-> Put(EmptyMap, Key("input"), input_data),
     node_outputs |-> EmptyMap,
     node_statuses |-> [x \in {} |-> ""],
     logs |-> <<>>,
     \* execute_workflow / _execute_graph
     epc |-> "created",
     graph |-> [keys |-> <<>>, adj |-> [x \in {} |-> <<>>]],
     in_degree |-> [x \in {} |-> 0],
     ready_nodes |-> <<>>,
     current_batch |-> <<>>,
     results |-> [x \in {} |-> NoResult],
     executed_nodes |-> {},
     output_node_id |-> "",
     ret |-> [status |-> "none", output |-> None, error |-> <<>>],
     \* NodeExecutor.run, one coroutine per dispatched node
     npc |-> [n \in NodeIds |-> "idle"],
     result |-> [n \in NodeIds |-> NoResult],
     error_msg |-> [n \in NodeIds |-> <<>>]]

\* set_variable
set_variable(c, key, value) == [c EXCEPT !.variables = Put(@, key, value)]

\* a set_node_output that keeps the output under one shared variable
set_node_output_shared_key(c, node_id, output) ==
    [c EXCEPT !.node_outputs = Put(@, node_id, output),
              !.variables = Put(@, <<"nodes", "last">>, output)]

\* set_node_output: the key of variables is the one string "nodes.<id>"
set_node_output(c, node_id, output) ==
    [c EXCEPT !.node_outputs = Put(@, node_id, output),
              !.variables = Put(@, <<"nodes", node_id>>, output)]

\* get_node_output
get_node_output(c, node_id) == Get(c.node_outputs, node_id, None)

\* set_node_status, up to the call of the callback
set_node_status(c, node_id, status) ==
    [c EXCEPT !.node_statuses = Put(@, node_id, status)]

\* add_log, up to the call of the callback
add_log(c, level, message, node_id) ==
    [c EXCEPT !.logs = Append(@, [level |-> level, message |-> message,
                                  node_id |-> node_id])]

\* start, up to the callback of its log entry
start(c) ==
    add_log([c EXCEPT !.status = "running", !.started_at = @ + 1],
            "info", "Workflow execution started", "")

\* complete, up to the callback of its log entry
complete(c, output_data) ==
    add_log([c EXCEPT !.status = "completed", !.completed_at = @ + 1,
                      !.variables = Put(@, Key("output"), output_data)],
            "info", "Workflow execution completed", "")

\* fail, up to the callback of its log entry
fail(c, error) ==
    add_log([c EXCEPT !.status = "failed", !.completed_at = @ + 1,
                      !.error = error],
            "error", "Workflow execution failed", "")

----------------------------------------------------------------------------
(* ExecutionContext.resolve_variables *)

\* A string is the sequence of its pieces: the characters "{", "}", "." and
\* " " one by one, and between them runs of other characters ("Hello",
\* "input", "'"), which hold none of the four.
\* What the pattern \{\{([^}]+)\}\} makes of a string is a sequence of items:
\* the text between two matches (lit), and the matches (tok) with
\* match.group(0) (raw), the segments of group(1).strip().split(".") (path)
\* and whether strip() removed anything (pad).
Lit(s) == [kind |-> "lit", s |-> s]

RECURSIVE Join(_)
\* the segments of a path written with dots
Join(path) ==
    IF Len(path) <= 1 THEN path
    ELSE <<Head(path), ".">> \o Join(Tail(path))

\* the match of a token written {{path}} or {{ path }}
Tok(path, pad) ==
    [kind |-> "tok", path |-> path, pad |-> pad,
     raw |-> <<"{", "{">> \o (IF pad THEN <<" ">> ELSE <<>>) \o Join(path)
             \o (IF pad THEN <<" ">> ELSE <<>>) \o <<"}", "}">>]

RECURSIVE strip(_)
\* str.strip(): blanks at both ends go
strip(s) ==
    IF s = <<>> THEN s
    ELSE IF Head(s) = " " THEN strip(Tail(s))
    ELSE IF s[Len(s)] = " " THEN strip(SubSeq(s, 1, Len(s) - 1))
    ELSE s

RECURSIVE split(_, _)
\* str.split("."), cur being the part collected so far; a part is the
\* piece it consists of, "" when it is empty, and a part of several pieces
\* (a blank or a brace inside) is written "?": no key of the maps of the
\* model has such a name
split(s, cur) ==
    LET part == IF Len(cur) = 1 THEN cur[1]
                ELSE IF cur = <<>> THEN "" ELSE "?"
    IN IF s = <<>> THEN <<part>>
       ELSE IF Head(s) = "." THEN <<part>> \o split(Tail(s), <<>>)
       ELSE split(Tail(s), Append(cur, Head(s)))

\* the index of the first "}" of s at or after i, Len(s) + 1 if there is none
FirstClosing(s, i) ==
    LET js == {j \in i..Len(s) : s[j] = "}"}
    IN IF js = {} THEN Len(s) + 1
       ELSE CHOOSE j \in js : \A k \in js : j <= k

\* the pattern matches at i: "{{", one or more characters other than "}",
\* then "}}"; the result is the index of the last piece of the match, 0 if
\* it does not match
match_end(s, i) ==
    IF i + 1 <= Len(s) /\ s[i] = "{" /\ s[i + 1] = "{"
    THEN LET j == FirstClosing(s, i + 2)
         IN IF j > i + 2 /\ j + 1 <= Len(s) /\ s[j + 1] = "}"
            THEN j + 1 ELSE 0
    ELSE 0

RECURSIVE finditer(_, _, _)
\* the scan of re.sub from index i on, lit being the unmatched text
\* collected since the last match
finditer(s, i, lit) ==
    LET flush == IF lit = <<>> THEN <<>> ELSE <<Lit(lit)>>
    IN IF i > Len(s) THEN flush
       ELSE IF match_end(s, i) = 0 THEN finditer(s, i + 1, Append(lit, s[i]))
       ELSE LET e == match_end(s, i)
                group1 == SubSeq(s, i + 2, e - 2)
            IN flush
               \o <<[kind |-> "tok", path |-> split(strip(group1), <<>>),
                     pad |-> strip(group1) # group1,
                     raw |-> SubSeq(s, i, e)]>>
               \o finditer(s, e + 1, <<>>)

\* match.group(0)
group0(item) == item.raw

RECURSIVE repr(_), repr_items(_, _)
\* repr(value)
repr(v) ==
    CASE v.t = "none" -> <<"None">>
      [] v.t = "str" -> <<"'">> \o v.s \o <<"'">>
      [] v.t = "int" -> <<ToString(v.i)>>
      [] v.t = "dict" -> <<"{">> \o repr_items(v.d, DOMAIN v.d) \o <<"}">>

repr_items(d, keys) ==
    IF keys = {} THEN <<>>
    ELSE LET k == CHOOSE x \in keys : TRUE
         IN <<"'">> \o Join(k) \o <<"'", ":", " ">> \o repr(d[k])
            \o (IF keys = {k} THEN <<>>
                ELSE <<",", " ">> \o repr_items(d, keys \ {k}))

\* str(value)
str(v) == IF v.t = "str" THEN v.s ELSE repr(v)

RECURSIVE get_nested_from(_, _)
\* the loop of _get_nested_value: each part of path.split(".") is looked up
\* as a key of the dict reached so far
get_nested_from(value, parts) ==
    IF parts = <<>> THEN value
    ELSE IF value.t # "dict" THEN None
    ELSE LET v == Get(value.d, Key(Head(parts)), None)
         IN IF v = None THEN None ELSE get_nested_from(v, Tail(parts))

\* _get_nested_value
get_nested_value(c, path) == get_nested_from(DictV(c.variables), path)

\* a replace_var that puts nothing where the path leads to no value
replace_var_drops_missing(c, item) ==
    LET value == get_nested_value(c, item.path)
    IN IF value # None THEN str(value) ELSE <<>>

\* replace_var
replace_var(c, item) ==
    LET value == get_nested_value(c, item.path)
    IN IF value # None THEN str(value) ELSE group0(item)

\* re.sub(pattern, replace_var, text), item by item: what takes the place of
\* each match, and the text between the matches as it is
re_sub(c, text) ==
    [i \in 1..Len(text) |->
        IF text[i].kind = "tok" THEN replace_var(c, text[i]) ELSE text[i].s]

RECURSIVE Flatten(_)
\* the string made of the strings of a sequence
Flatten(ss) == IF ss = <<>> THEN <<>> ELSE Head(ss) \o Flatten(Tail(ss))

\* resolve_variables
resolve_variables(c, text) == Flatten(re_sub(c, finditer(text, 1, <<>>)))

NoCall == [kind |-> "none"]

\* no ExecutionService takes part in the behaviour
NoService == [last |-> [op |-> "none"]]

----------------------------------------------------------------------------
(* WorkflowEngine.execute_workflow and _execute_graph *)

\* the except branch of execute_workflow, up to the callback of fail's log
engine_fail(c, e) ==
    [fail(c, <<"Workflow execution failed: ">> \o e) EXCEPT !.epc = "fail_log"]

NotFound(c, batch) == {i \in 1..Len(batch) : batch[i] \notin Range(c.nodes)}

OutputsIn(c, batch) ==
    {i \in 1..Len(batch) : c.types[batch[i]] = "output"}

Max(S) == CHOOSE x \in S : \A y \in S : y <= x
Min(S) == CHOOSE x \in S : \A y \in S : x <= y

\* lines 297-320: drain ready_nodes into the batch, look every node up,
\* remember the output node, hand the batch to asyncio.gather
start_batch(c, ready) ==
    IF NotFound(c, ready) # {}
    THEN engine_fail(c, NodeNotFoundError(ready[Min(NotFound(c, ready))]))
    ELSE [c EXCEPT !.current_batch = ready,
                   !.ready_nodes = <<>>,
                   !.output_node_id =
                       IF OutputsIn(c, ready) # {}
                       THEN ready[Max(OutputsIn(c, ready))] ELSE @,
                   !.npc = [n \in NodeIds |->
                               IF n \in Range(ready) THEN "scheduled" ELSE @[n]],
                   !.epc = "gather"]

\* execute_workflow lines 100-111 and _execute_graph lines 281-295
plan(c) ==
    LET g == build_execution_graph(c.nodes, c.edges)
        ind == compute_in_degree(g)
    IN IF has_cycle(g) THEN engine_fail(c, CircularError)
       ELSE IF initial_ready(ind) = <<>> THEN engine_fail(c, NoStartError)
       ELSE start_batch([c EXCEPT !.graph = g, !.in_degree = ind.deg],
                        initial_ready(ind))

RECURSIVE release(_, _, _)
\* lines 338-341: one decrement per listed target
release(targets, i, st) ==
    IF i > Len(targets) THEN st
    ELSE LET t == targets[i]
             d == st.deg[t] - 1
         IN release(targets, i + 1,
                    [st EXCEPT !.deg[t] = d,
                               !.ready = IF d = 0 THEN Append(@, t) ELSE @])

RECURSIVE handle_results_no_failed_check(_, _, _)
\* handle_results without the check of result.status (lines 332-335)
handle_results_no_failed_check(c, i, st) ==
    IF i > Len(c.current_batch) THEN st
    ELSE LET n == c.current_batch[i]
             r == c.results[n]
         IN IF r.kind = "exception"
            THEN [st EXCEPT !.exc = <<"Node ", n, " execution failed: ">>
                                    \o r.error]
            ELSE handle_results_no_failed_check(c, i + 1,
                     release(Neighbors(c.graph, n), 1,
                             [st EXCEPT !.executed = @ \cup {n}]))

RECURSIVE handle_results(_, _, _)
\* lines 323-341: the results of the batch, in batch order
handle_results(c, i, st) ==
    IF i > Len(c.current_batch) THEN st
    ELSE LET n == c.current_batch[i]
             r == c.results[n]
         IN IF r.kind = "exception"
            THEN [st EXCEPT !.exc = <<"Node ", n, " execution failed: ">>
                                    \o r.error]
            ELSE IF r.status = "failed"
            THEN [st EXCEPT !.executed = @ \cup {n},
                            !.exc = <<"Node ", n, " failed: ">> \o r.error]
            ELSE handle_results(c, i + 1,
                     release(Neighbors(c.graph, n), 1,
                             [st EXCEPT !.executed = @ \cup {n}]))

\* the final result without the output node of lines 352-353
FinalOutput_always_map(c) ==
    DictV([k \in {Key(n) : n \in c.executed_nodes} |->
              get_node_output(c, k[1])])

\* lines 351-358: what _execute_graph returns
FinalOutput(c) ==
    IF c.output_node_id # ""
    THEN get_node_output(c, c.output_node_id)
    ELSE DictV([k \in {Key(n) : n \in c.executed_nodes} |->
                   get_node_output(c, k[1])])

\* lines 343-358 and execute_workflow line 114, up to the callback of
\* complete's log
finish(c) ==
    IF Cardinality(c.executed_nodes) # Len(c.graph.keys)
    THEN engine_fail(c, NotAllExecutedError)
    ELSE [complete(c, FinalOutput(c)) EXCEPT !.epc = "complete_log"]

\* what follows asyncio.gather
after_gather(c) ==
    LET st == handle_results(c, 1, [executed |-> c.executed_nodes,
                                    deg |-> c.in_degree,
                                    ready |-> <<>>, exc |-> <<>>])
        c1 == [c EXCEPT !.executed_nodes = st.executed, !.in_degree = st.deg]
    IN IF st.exc # <<>> THEN engine_fail(c1, st.exc)
       ELSE IF st.ready # <<>> THEN start_batch(c1, st.ready)
       ELSE finish(c1)

EngineCbStops == {"start_log", "start_status", "complete_log",
                  "complete_status", "fail_log", "fail_status"}

\* the event start, complete or fail is handing to the callback
EngineEvent(c) ==
    CASE c.epc = "start_log" -> Event("log", "", "info")
      [] c.epc = "start_status" -> Event("status", "running", "")
      [] c.epc = "complete_log" -> Event("log", "", "info")
      [] c.epc = "complete_status" -> Event("status", "completed", "")
      [] c.epc = "fail_log" -> Event("log", "", "error")
      [] c.epc = "fail_status" -> Event("status", "failed", "")

\* the engine's coroutine goes on after a callback returned or raised
after_engine_callback(c, o) ==
    CASE c.epc = "start_log" ->
            IF o = "return" THEN [c EXCEPT !.epc = "start_status"]
            ELSE engine_fail(c, CallbackError)
      [] c.epc = "start_status" ->
            IF o = "return" THEN plan(c) ELSE engine_fail(c, CallbackError)
      [] c.epc = "complete_log" ->
            IF o = "return" THEN [c EXCEPT !.epc = "complete_status"]
            ELSE engine_fail(c, CallbackError)
      [] c.epc = "complete_status" ->
            IF o = "return"
            THEN [c EXCEPT !.epc = "returned",
                           !.ret = [status |-> "completed",
                                    output |-> c.variables[Key("output")],
                                    error |-> <<>>]]
            ELSE engine_fail(c, CallbackError)
      [] c.epc = "fail_log" ->
            IF o = "return" THEN [c EXCEPT !.epc = "fail_status"]
            ELSE [c EXCEPT !.epc = "raised", !.ret.status = "raised"]
      [] c.epc = "fail_status" ->
            IF o = "return"
            THEN [c EXCEPT !.epc = "returned",
                           !.ret = [status |-> "failed", output |-> None,
                                    error |-> c.error]]
            ELSE [c EXCEPT !.epc = "raised", !.ret.status = "raised"]

----------------------------------------------------------------------------
(* WorkflowEngine._execute_node and NodeExecutor.run *)


\* validate_config
ValidateOutcomes == {"valid", "invalid"}

\* what an executor's execute can do: return a NodeResult with one of the
\* three statuses, raise NodeExecutionError, raise something else
ExecuteOutcomes == {"success", "failed", "skipped", "raise_exec", "raise_other"}

NodeCbStops == {"running_cb", "startlog_cb", "result_cb", "resultlog_cb",
                "h_status_cb", "h_log_cb"}

\* a coroutine stands at a call of the callback: nobody else runs
InCallback(c) ==
    \/ c.epc \in EngineCbStops
    \/ \E n \in NodeIds : c.npc[n] \in NodeCbStops

\* the coroutine of run(n) is over: gather has its result
node_done(c, n, r) == [c EXCEPT !.npc[n] = "done", !.results = Put(@, n, r)]

\* the three except branches of run, up to the callback of set_node_status
run_handler(c, n, msg) ==
    [set_node_status(c, n, "failed") EXCEPT !.error_msg[n] = msg,
                                            !.npc[n] = "h_status_cb"]

Unexpected(e) == <<"Unexpected error: ">> \o e

\* _execute_node lines 378-388 and run lines 100-104, up to the callback
execute_node(c, n, d) ==
    IF d = "raises" THEN node_done(c, n, ExceptionOf(DispatchError(n)))
    ELSE [set_node_status(c, n, "running") EXCEPT !.npc[n] = "running_cb"]

\* run lines 123-128: execute returned or raised
execute_returns(c, n, x) ==
    CASE x = "raise_exec" ->
            run_handler(c, n, <<"Execution failed: ">> \o ExecuteError(n))
      [] x = "raise_other" -> run_handler(c, n, Unexpected(ExecuteError(n)))
      [] OTHER ->
            LET r == ResultOf(n, x,
                              IF x = "success" THEN NodeOutput(n) ELSE None,
                              IF x = "failed" THEN ReturnedError(n) ELSE <<>>)
            IN [set_node_status(c, n, r.status) EXCEPT !.result[n] = r,
                                                       !.npc[n] = "result_cb"]

\* run lines 130-144: after the status callback returned
store_output(c, n) ==
    IF c.result[n].status = "success"
    THEN add_log(set_node_output(c, n, c.result[n].output),
                 "info", "completed successfully", n)
    ELSE add_log(c, "warning", "completed with status", n)

\* the event set_node_status or add_log is handing to the callback
NodeEvent(c, n) ==
    CASE c.npc[n] = "running_cb" -> Event("node_status", "running", "")
      [] c.npc[n] = "startlog_cb" -> Event("log", "", "info")
      [] c.npc[n] = "result_cb" -> Event("node_status", c.result[n].status, "")
      [] c.npc[n] = "resultlog_cb" ->
            Event("log", "", c.logs[Len(c.logs)].level)
      [] c.npc[n] = "h_status_cb" -> Event("node_status", "failed", "")
      [] c.npc[n] = "h_log_cb" -> Event("log", "", "error")

\* run goes on after a callback returned or raised; v is what
\* validate_config does when it is reached
after_node_callback(c, n, o, v) ==
    CASE c.npc[n] = "running_cb" ->
            IF o = "return"
            THEN [add_log(c, "info", "started", n) EXCEPT !.npc[n] = "startlog_cb"]
            ELSE run_handler(c, n, Unexpected(CallbackError))
      [] c.npc[n] = "startlog_cb" ->
            IF o = "raise" THEN run_handler(c, n, Unexpected(CallbackError))
            ELSE IF v = "invalid"
            THEN run_handler(c, n, <<"Configuration validation failed: ",
                                     "Invalid configuration for node ", n>>)
            ELSE [c EXCEPT !.npc[n] = "executing"]
      [] c.npc[n] = "result_cb" ->
            IF o = "return"
            THEN [store_output(c, n) EXCEPT !.npc[n] = "resultlog_cb"]
            ELSE run_handler(c, n, Unexpected(CallbackError))
      [] c.npc[n] = "resultlog_cb" ->
            IF o = "return" THEN node_done(c, n, c.result[n])
            ELSE run_handler(c, n, Unexpected(CallbackError))
      [] c.npc[n] = "h_status_cb" ->
            IF o = "return"
            THEN [add_log(c, "error", "failed", n) EXCEPT !.npc[n] = "h_log_cb"]
            ELSE node_done(c, n, ExceptionOf(CallbackError))
      [] c.npc[n] = "h_log_cb" ->
            IF o = "return"
            THEN node_done(c, n, ResultOf(n, "failed", None, c.error_msg[n]))
            ELSE node_done(c, n, ExceptionOf(CallbackError))

\* the coroutines of the batch starting in any order
NextToStart_any_order(c, n) ==
    \E i \in 1..Len(c.current_batch) :
        c.current_batch[i] = n /\ c.npc[n] = "scheduled"

\* gather starts the coroutines of a batch in batch order
NextToStart(c, n) ==
    \E i \in 1..Len(c.current_batch) :
        /\ c.current_batch[i] = n
        /\ c.npc[n] = "scheduled"
        /\ \A j \in 1..(i - 1) : c.npc[c.current_batch[j]] # "scheduled"

BatchDone(c) == \A i \in 1..Len(c.current_batch) : c.npc[c.current_batch[i]] = "done"

----------------------------------------------------------------------------
(* History: what the context held when each node began *)

Status(c, n) == Get(c.node_statuses, n, "absent")

NewHist == [start_order |-> <<>>,
            outputs_at_start |-> [n \in {} |-> {}],
            failed_before_start |-> [n \in {} |-> FALSE],
            transitions |-> {}]

Observe(h, c, c2) ==
    LET started == {n \in NodeIds : Status(c2, n) = "running"
                                    /\ Status(c, n) # "running"}
        changed == {n \in NodeIds : Status(c2, n) # Status(c, n)}
    IN [start_order |-> h.start_order
                        \o (IF started = {} THEN <<>>
                            ELSE <<CHOOSE n \in started : TRUE>>),
        outputs_at_start |->
            [n \in (DOMAIN h.outputs_at_start) \cup started |->
                IF n \in started THEN DOMAIN c.node_outputs
                ELSE h.outputs_at_start[n]],
        failed_before_start |->
            [n \in (DOMAIN h.failed_before_start) \cup started |->
                IF n \in started
                THEN \E m \in DOMAIN c.results :
                        \/ c.results[m].kind = "exception"
                        \/ c.results[m].status = "failed"
                ELSE h.failed_before_start[n]],
        transitions |-> h.transitions
                        \cup {<<n, Status(c, n), Status(c2, n)>> : n \in changed}]

----------------------------------------------------------------------------
(* The engine driven directly: one run per behaviour *)

\* executor classes an engine can hold: the built-in ones registered by
\* _create_workflow_engine of the service, and classes with the constructor
\* of NodeExecutor registered through register_executor
BuiltinTypes == {"input", "llm", "condition", "transform", "output"}

\* executor_class(node_id=..., node_type=...): the built-in classes take
\* node_id only (TypeError), an unregistered type has no class
construct(registry, type) ==
    IF type \in DOMAIN registry /\ registry[type] = "custom"
    THEN "constructed" ELSE "raises"

\* _create_workflow_engine
create_workflow_engine == [t \in BuiltinTypes |-> "builtin"]

\* the registries of the engines driven directly: the one of the service,
\* the same with a class of the tests registered for "task", the classes of
\* the tests for both types, and a registry without a class for "task"
EngineRegistries ==
    {create_workflow_engine,
     Put(create_workflow_engine, "task", "custom"),
     Put(Put(create_workflow_engine, "task", "custom"), "output", "custom"),
     Put(create_workflow_engine, "output", "custom")}

\* the WorkflowEngine a run is given to
EngineOf(registry) == [registry |-> registry, last |-> [op |-> "none"]]

TypeAssignments(nodes) ==
    {[n \in Range(nodes) |-> IF n = o THEN "output" ELSE "task"] :
        o \in Range(nodes) \cup {"none"}}

InitEngine ==
    /\ \E nodes \in NodeLists, edges \in EdgeSeqs, cb \in EngineCallbacks :
         \E types \in TypeAssignments(nodes) :
            runs = <<NewContext(nodes, types, edges, cb, RunInput)>>
    /\ hist = <<NewHist>>
    /\ resolved = NoCall
    /\ \E registry \in EngineRegistries : svc = EngineOf(registry)

Step(r, c2) ==
    /\ runs' = [runs EXCEPT ![r] = c2]
    /\ hist' = [hist EXCEPT ![r] = Observe(@, runs[r], c2)]
    /\ UNCHANGED <<resolved, svc>>

\* context.start()
ContextStart ==
    \E r \in DOMAIN runs :
        /\ runs[r].epc = "created"
        /\ Step(r, [start(runs[r]) EXCEPT !.epc = "start_log"])

\* the callback called by start, complete or fail returns or raises
EngineCallback ==
    \E r \in DOMAIN runs :
        /\ runs[r].epc \in EngineCbStops
        /\ Step(r, after_engine_callback(runs[r],
                       Callback(runs[r].cb, EngineEvent(runs[r]))))

\* the first step of a node's coroutine
ExecuteNode ==
    \E r \in DOMAIN runs, n \in NodeIds :
        /\ runs[r].epc = "gather"
        /\ ~InCallback(runs[r])
        /\ NextToStart(runs[r], n)
        /\ Step(r, execute_node(runs[r], n,
                                construct(svc.registry, runs[r].types[n])))

\* the callback called by set_node_status or add_log in run returns or raises
NodeCallback ==
    \E r \in DOMAIN runs, n \in NodeIds :
        /\ runs[r].npc[n] \in NodeCbStops
        /\ \E v \in ValidateOutcomes :
              Step(r, after_node_callback(runs[r], n,
                         Callback(runs[r].cb, NodeEvent(runs[r], n)), v))

\* the executor's execute returns or raises
Execute ==
    \E r \in DOMAIN runs, n \in NodeIds :
        /\ runs[r].npc[n] = "executing"
        /\ ~InCallback(runs[r])
        /\ \E x \in ExecuteOutcomes : Step(r, execute_returns(runs[r], n, x))

\* asyncio.gather returns: the results are handled
AfterGather ==
    \E r \in DOMAIN runs :
        /\ runs[r].epc = "gather"
        /\ BatchDone(runs[r])
        /\ Step(r, after_gather(runs[r]))

NextEngine ==
    \/ ContextStart
    \/ EngineCallback
    \/ ExecuteNode
    \/ NodeCallback
    \/ Execute
    \/ AfterGather

SpecEngine == InitEngine /\ [][NextEngine]_vars

----------------------------------------------------------------------------
(* Claims about the engine, checked under SpecEngine *)

Terminated(c) == c.epc \in {"returned", "raised"}

\* somebody can look at the context: no coroutine is in the middle of
\* synchronous code, or the callback is being called
Observable(c) == InCallback(c) => c.cb # "none"

\* C1: in a run that reached completed, for every edge u -> v the output of
\* u was in node_outputs when v became running, whether u's result was
\* success or skipped
C1_OutputBeforeSuccessor ==
    \A r \in DOMAIN runs :
        runs[r].ret.status = "completed" =>
            \A i \in 1..Len(runs[r].edges) :
                LET u == runs[r].edges[i][1]
                    v == runs[r].edges[i][2]
                IN /\ v \in DOMAIN hist[r].outputs_at_start
                   /\ u \in hist[r].outputs_at_start[v]

\* C2: when execute_workflow returns completed, the executed nodes are the
\* nodes of the definition, every one has ended and none is failed
C2_CompletedAllExecuted ==
    \A r \in DOMAIN runs :
        runs[r].ret.status = "completed" =>
            /\ runs[r].executed_nodes = Range(runs[r].nodes)
            /\ \A n \in Range(runs[r].nodes) :
                  /\ Status(runs[r], n) \in {"success", "skipped"}
                  /\ runs[r].npc[n] = "done"

C2_Witness ==
    \E r \in DOMAIN runs :
        /\ runs[r].ret.status = "completed"
        /\ Len(runs[r].nodes) = 3
        /\ Len(runs[r].edges) = 2
        /\ runs[r].edges[1] # runs[r].edges[2]


\* C1 restricted to predecessors whose result was success
C1_OutputOfSuccessBeforeSuccessor ==
    \A r \in DOMAIN runs :
        runs[r].ret.status = "completed" =>
            \A i \in 1..Len(runs[r].edges) :
                LET u == runs[r].edges[i][1]
                    v == runs[r].edges[i][2]
                IN Status(runs[r], u) = "success" =>
                      /\ v \in DOMAIN hist[r].outputs_at_start
                      /\ u \in hist[r].outputs_at_start[v]

\* the error a node failed with by itself: its executor could not be
\* constructed, its configuration was invalid, its execute raised or
\* returned a failed result
OwnError(c, n) ==
    IF n \in DOMAIN c.results /\ c.results[n] = ExceptionOf(DispatchError(n))
    THEN DispatchError(n)
    ELSE IF c.result[n].kind = "result" /\ c.result[n].status = "failed"
    THEN ReturnedError(n)
    ELSE IF Contains(c.error_msg[n], ExecuteError(n)) THEN ExecuteError(n)
    ELSE IF Contains(c.error_msg[n], <<"Invalid configuration for node ", n>>)
    THEN <<"Invalid configuration for node ", n>>
    ELSE <<>>

ExecuteFailed(c, n) ==
    \/ c.result[n].kind = "result" /\ c.result[n].status = "failed"
    \/ Contains(c.error_msg[n], ExecuteError(n))

\* the first node of the batch, in batch order, that failed by itself
FirstFailed(c) ==
    c.current_batch[Min({i \in 1..Len(c.current_batch) :
                            OwnError(c, c.current_batch[i]) # <<>>})]

\* C3: if a node's execute returned failed or raised, the run ends failed,
\* the run's error contains the error of the first failed node, and the only
\* nodes that ever began are those of the batches dispatched so far
C3_FailureAbortsRun ==
    \A r \in DOMAIN runs :
        (Terminated(runs[r]) /\ \E n \in NodeIds : ExecuteFailed(runs[r], n)) =>
            /\ runs[r].status = "failed"
            /\ Contains(runs[r].error, OwnError(runs[r], FirstFailed(runs[r])))
            /\ \A n \in NodeIds :
                  Status(runs[r], n) # "absent" =>
                      /\ n \in runs[r].executed_nodes \cup Range(runs[r].current_batch)
                      /\ ~hist[r].failed_before_start[n]
                         \/ n \in Range(runs[r].current_batch)

\* the edges hold a cycle through two or more nodes: some edge u -> v with
\* u # v has u reachable from v
RECURSIVE Reach(_, _, _)
Reach(edges, S, k) ==
    IF k = 0 THEN S
    ELSE Reach(edges,
               S \cup {edges[i][2] : i \in {j \in 1..Len(edges) : edges[j][1] \in S}},
               k - 1)

Cyclic(edges) ==
    \E i \in 1..Len(edges) :
        /\ edges[i][1] # edges[i][2]
        /\ edges[i][1] \in Reach(edges, {edges[i][2]}, Len(edges))

\* C4: a run of a definition whose edges hold a cycle ends failed with an
\* error that contains 'circular dependencies', and no node becomes running
C4_CycleRejected ==
    \A r \in DOMAIN runs :
        Cyclic(runs[r].edges) =>
            /\ DOMAIN runs[r].node_statuses = {}
            /\ \A n \in NodeIds : runs[r].npc[n] = "idle"
            /\ Terminated(runs[r]) =>
                  /\ runs[r].status = "failed"
                  /\ Contains(runs[r].error, CircularError)

\* C4 without the error message
C4_CycleNeverRunsANode ==
    \A r \in DOMAIN runs :
        Cyclic(runs[r].edges) =>
            /\ DOMAIN runs[r].node_statuses = {}
            /\ Terminated(runs[r]) => runs[r].status = "failed"

AllowedTransitions ==
    {<<"absent", "running">>, <<"running", "success">>,
     <<"running", "failed">>, <<"running", "skipped">>}

\* C5: a node's status changes only absent -> running -> success, failed
\* or skipped, also when the callback raises
C5_StatusMonotonic ==
    \A r \in DOMAIN runs :
        \A t \in hist[r].transitions : <<t[2], t[3]>> \in AllowedTransitions

\* C6: whenever the context can be looked at (the callback's calls
\* included), a node with status success has its output in node_outputs and
\* under nodes.<id> in variables
C6_SuccessHasOutput ==
    \A r \in DOMAIN runs :
        Observable(runs[r]) =>
            \A n \in NodeIds :
                Status(runs[r], n) = "success" =>
                    /\ n \in DOMAIN runs[r].node_outputs
                    /\ <<"nodes", n>> \in DOMAIN runs[r].variables

\* C6 at the places where no coroutine is in the middle of a callback
C6_SuccessHasOutputBetweenSteps ==
    \A r \in DOMAIN runs :
        ~InCallback(runs[r]) =>
            \A n \in NodeIds :
                Status(runs[r], n) = "success" =>
                    /\ n \in DOMAIN runs[r].node_outputs
                    /\ <<"nodes", n>> \in DOMAIN runs[r].variables

----------------------------------------------------------------------------
(* The context driven directly: set_variable, set_node_output and
   resolve_variables in any order *)

\* input_data of the contexts tried
InputDatas ==
    {DictV(Put(EmptyMap, Key("user"),
               DictV(Put(EmptyMap, Key("name"), StrV("Bob"))))),
     DictV(Put(EmptyMap, Key("age"), IntV(30)))}

\* the nodes whose output is stored
OutputNodes == {"n1", "n2"}

\* the outputs a node may store
Outputs ==
    {DictV(Put(EmptyMap, Key("result"), StrV("success"))),
     DictV(Put(EmptyMap, Key("result"), IntV(30))),
     StrV("text")}

\* the variables a caller may set: values of the tests, a str that holds
\* the token {{y}}, and None
UserVariables ==
    {<<Key("user"), DictV(Put(EmptyMap, Key("name"), StrV("Alice")))>>,
     <<Key("nodes"),
       DictV(Put(EmptyMap, Key("n1"),
                 DictV(Put(EmptyMap, Key("result"), StrV("nested")))))>>,
     <<Key("x"), StrOf(<<"{", "{", "y", "}", "}">>)>>,
     <<Key("y"), StrV("v")>>,
     <<Key("nothing"), None>>}

Paths ==
    {<<"input", "user", "name">>, <<"input", "age">>, <<"input">>,
     <<"user", "name">>, <<"missing">>,
     <<"nodes", "n1", "result">>, <<"nodes", "n2", "result">>,
     <<"nodes", "n1">>, <<"x">>, <<"y">>, <<"nothing">>}

\* the texts resolved, as the items they are written from: one token after
\* a literal, with and without blanks inside the braces, texts with two
\* tokens, and texts without a token
Texts ==
    {<<Lit(<<"Result:", " ">>), Tok(p, pad)>> : p \in Paths, pad \in BOOLEAN}
    \cup {<<Tok(<<"input", "user", "name">>, FALSE), Lit(<<",", " ">>),
            Tok(<<"nodes", "n1", "result">>, FALSE), Lit(<<"!">>)>>,
          <<Lit(<<"Hello", " ">>), Tok(<<"input", "user", "name">>, FALSE),
            Lit(<<" ", "-", " ">>), Tok(<<"missing">>, FALSE)>>,
          <<Lit(<<"Hello", " ", "World", "!">>)>>,
          <<Lit(<<"{", "a", "}", " ", "{", "{", "b", "}">>)>>}

\* the string a text is written as
Render(text) ==
    Flatten([i \in 1..Len(text) |->
                IF text[i].kind = "tok" THEN text[i].raw ELSE text[i].s])

InitContext ==
    /\ \E input_data \in InputDatas :
          runs = <<NewContext(<<>>, <<>>, <<>>, "none", input_data)>>
    /\ hist = <<NewHist>>
    /\ resolved = NoCall
    /\ svc = NoService

\* context.set_variable(key, value)
SetVariable ==
    \E kv \in UserVariables :
        /\ runs' = [runs EXCEPT ![1] = set_variable(@, kv[1], kv[2])]
        /\ UNCHANGED <<hist, resolved, svc>>

\* context.set_node_output(node_id, output)
SetNodeOutput ==
    \E n \in OutputNodes, out \in Outputs :
        /\ runs' = [runs EXCEPT ![1] = set_node_output(@, n, out)]
        /\ UNCHANGED <<hist, resolved, svc>>

\* context.resolve_variables(Render(text)): resolved keeps the items the
\* text was written from (source), the items the pattern finds in it (text),
\* what takes the place of each (result) and the string returned (value)
ResolveVariables ==
    \E text \in Texts :
        /\ resolved' =
              [kind |-> "call", source |-> text,
               text |-> finditer(Render(text), 1, <<>>),
               result |-> re_sub(runs[1], finditer(Render(text), 1, <<>>)),
               value |-> resolve_variables(runs[1], Render(text))]
        /\ UNCHANGED <<runs, hist, svc>>

NextContext ==
    \/ SetVariable
    \/ SetNodeOutput
    \/ ResolveVariables

SpecContext == InitContext /\ [][NextContext]_vars

\* the token {{nodes.n.f}} addresses a field the node's stored output holds
AddressesOutputField(c, item) ==
    /\ item.kind = "tok"
    /\ Len(item.path) = 3
    /\ item.path[1] = "nodes"
    /\ item.path[2] \in DOMAIN c.node_outputs
    /\ c.node_outputs[item.path[2]].t = "dict"
    /\ Key(item.path[3]) \in DOMAIN c.node_outputs[item.path[2]].d

\* C7: after set_node_output(n, out) with f a key of out, a call of
\* resolve_variables replaces the token {{nodes.n.f}} by str(out[f])
C7_NodeOutputFieldResolved ==
    [][resolved' # resolved =>
        \A i \in 1..Len(resolved'.text) :
            AddressesOutputField(runs[1], resolved'.text[i]) =>
                resolved'.result[i] =
                    str(runs[1].node_outputs[resolved'.text[i].path[2]]
                            .d[Key(resolved'.text[i].path[3])])]_vars

\* the paths below input are resolved: {{input.user.name}} becomes Bob
C7_InputFieldResolved ==
    [][resolved' # resolved =>
        \A i \in 1..Len(resolved'.text) :
            (/\ resolved'.text[i].kind = "tok"
             /\ resolved'.text[i].path = <<"input", "user", "name">>
             /\ runs[1].variables[Key("input")] \in
                  {d \in InputDatas : Key("user") \in DOMAIN d.d})
            => resolved'.result[i] = <<"Bob">>]_vars

----------------------------------------------------------------------------
(* ExecutionService: the records, logs, task handles and control flags, the
   asyncio tasks it created and its stop calls suspended at `await task` *)

ExecutionIds == {"e1", "e2"}

MaxSubmits == 2
MaxControls == 2

\* ExecutionService.__init__
NewService ==
    [executions |-> [x \in {} |-> None],
     execution_logs |-> [x \in {} |-> <<>>],
     execution_tasks |-> [x \in {} |-> 0],
     execution_controls |-> [x \in {} |-> None],
     registry |-> create_workflow_engine,
     tasks |-> <<>>,
     stops |-> <<>>,
     submits |-> 0,
     controls |-> 0,
     stop_returned |-> {},
     last |-> [op |-> "none"]]

\* the record execute_workflow creates (lines 105-116); record is the number
\* of the submission, telling a record from the one a resubmission replaces
NewRecord(k) ==
    [record |-> k, status |-> "pending", output_data |-> None,
     error_message |-> <<>>, started_at |-> 0, completed_at |-> 0,
     progress |-> 0]

\* _update_status
update_status(s, id, status) ==
    IF id \in DOMAIN s.executions
    THEN [s EXCEPT !.executions[id].status = status]
    ELSE s

\* _add_log
service_add_log(s, id, level, message) ==
    [s EXCEPT !.execution_logs =
        Put(@, id, Append(Get(@, id, <<>>),
                          [level |-> level, message |-> message]))]

\* the finally of _execute_workflow_async
drop_handle(s, id) ==
    [s EXCEPT !.execution_tasks =
        [x \in (DOMAIN @) \ {id} |-> @[x]]]

\* _execute_workflow_async lines 164-171
task_prologue(s, id) ==
    service_add_log(
        [update_status(s, id, "running")
            EXCEPT !.executions[id].started_at = @ + 1],
        id, "info", "Starting workflow execution")

\* _execute_workflow_async lines 193-226, after the engine returned or raised
task_epilogue(s, id, c) ==
    IF c.epc = "raised"
    THEN service_add_log(
            [update_status(s, id, "failed")
                EXCEPT !.executions[id].error_message =
                           <<"Workflow execution error: ">> \o CallbackError,
                       !.executions[id].completed_at = @ + 1],
            id, "error", "Workflow execution error")
    ELSE IF s.execution_controls[id].stopped
    THEN service_add_log(
            [update_status(s, id, "stopped")
                EXCEPT !.executions[id].completed_at = @ + 1],
            id, "info", "Execution stopped by user")
    ELSE IF c.ret.status = "completed"
    THEN [service_add_log(
            [update_status(s, id, "completed")
                EXCEPT !.executions[id].output_data = c.ret.output,
                       !.executions[id].progress = 1],
            id, "info", "Workflow execution completed successfully")
            EXCEPT !.executions[id].completed_at = @ + 1]
    ELSE [service_add_log(
            [update_status(s, id, "failed")
                EXCEPT !.executions[id].error_message = c.ret.error],
            id, "error", "Workflow execution failed")
            EXCEPT !.executions[id].completed_at = @ + 1]

RECURSIVE advance(_, _)
\* synchronous code up to the next suspension: every callback the context
\* calls on the way returns or raises at once
advance(c, v) ==
    IF c.epc \in EngineCbStops
    THEN advance(after_engine_callback(c, Callback(c.cb, EngineEvent(c))), v)
    ELSE IF \E n \in NodeIds : c.npc[n] \in NodeCbStops
    THEN LET n == CHOOSE m \in NodeIds : c.npc[m] \in NodeCbStops
         IN advance(after_node_callback(c, n,
                        Callback(c.cb, NodeEvent(c, n)), v), v)
    ELSE c

\* CancelledError reaches the coroutines of the batch and execute_workflow:
\* no except Exception catches it
cancel_run(c) ==
    [c EXCEPT !.epc = "cancelled",
              !.npc = [n \in NodeIds |->
                          IF @[n] \in {"scheduled", "executing"}
                          THEN "cancelled" ELSE @[n]]]

\* what one step of the event loop can make of the engine run c of a task
\* suspended at asyncio.gather: a coroutine of the batch starts, an execute
\* returns or raises, or gather returns and the engine goes on
RunSteps(c, registry) ==
    {advance(execute_node(c, n, construct(registry, c.types[n])), v) :
        n \in {m \in NodeIds : NextToStart(c, m)}, v \in ValidateOutcomes}
    \cup {advance(execute_returns(c, n, x), "valid") :
            n \in {m \in NodeIds : c.npc[m] = "executing"},
            x \in ExecuteOutcomes}
    \cup (IF BatchDone(c) THEN {advance(after_gather(c), "valid")} ELSE {})

\* the task is over: the coroutine returned (state done) or was cancelled
TaskOver(task) == task.state \in {"done", "cancelled"}


\* the definitions submitted: one WorkflowDefinition(**definition) rejects,
\* a single node of a built-in type, a chain of two nodes of the type "task"
ServiceDefinitions ==
    {[valid |-> FALSE, nodes |-> <<>>, types |-> <<>>, edges |-> <<>>],
     [valid |-> TRUE, nodes |-> <<"n1">>, types |-> [n \in {"n1"} |-> "output"],
      edges |-> <<>>],
     [valid |-> TRUE, nodes |-> <<"n1", "n2">>,
      types |-> [n \in {"n1", "n2"} |-> "task"],
      edges |-> <<<<"n1", "n2">>>>]}

\* ExecutionService.execute_workflow lines 104-145, a valid definition
service_execute_workflow(s, id, t) ==
    LET s1 == [s EXCEPT
                 !.executions = Put(@, id, NewRecord(s.submits + 1)),
                 !.execution_logs = Put(@, id, <<>>),
                 !.execution_controls =
                     Put(@, id, [paused |-> FALSE, stopped |-> FALSE])]
        s2 == service_add_log(s1, id, "info", "Execution created")
    IN [s2 EXCEPT
          !.tasks = Append(@, [id |-> id, state |-> "created",
                               must_cancel |-> FALSE]),
          !.execution_tasks = Put(@, id, t)]

\* stop_execution lines 344-347
finish_stop(s, id, awaited) ==
    [service_add_log(update_status(s, id, "stopped"),
                     id, "info", "Execution stopped")
        EXCEPT !.stop_returned = @ \cup {id},
               !.last = [op |-> "stop", id |-> id, result |-> TRUE,
                         awaited |-> awaited]]

\* stop_execution lines 327-340, up to `await task` or to the end
stop_execution(s, id) ==
    IF id \notin DOMAIN s.executions
    THEN [s EXCEPT !.last = [op |-> "stop", id |-> id, result |-> FALSE,
                             awaited |-> FALSE]]
    ELSE LET s1 == IF id \in DOMAIN s.execution_controls
                   THEN [s EXCEPT !.execution_controls[id].stopped = TRUE]
                   ELSE s
         IN IF /\ id \in DOMAIN s1.execution_tasks
               /\ ~TaskOver(s1.tasks[s1.execution_tasks[id]])
            THEN [s1 EXCEPT
                    !.tasks[s1.execution_tasks[id]].must_cancel = TRUE,
                    !.stops = Append(@, [id |-> id,
                                         task |-> s1.execution_tasks[id]]),
                    !.last = [op |-> "stop_waits", id |-> id]]
            ELSE finish_stop(s1, id, FALSE)

\* a pause_execution without the test of the status (line 362)
pause_execution_any_status(s, id) ==
    IF id \notin DOMAIN s.executions
    THEN [s EXCEPT !.last = [op |-> "pause", id |-> id, result |-> FALSE]]
    ELSE [service_add_log(
            update_status(
                IF id \in DOMAIN s.execution_controls
                THEN [s EXCEPT !.execution_controls[id].paused = TRUE]
                ELSE s, id, "paused"),
            id, "info", "Execution paused")
            EXCEPT !.last = [op |-> "pause", id |-> id, result |-> TRUE]]

\* pause_execution
pause_execution(s, id) ==
    IF id \notin DOMAIN s.executions \/ s.executions[id].status # "running"
    THEN [s EXCEPT !.last = [op |-> "pause", id |-> id, result |-> FALSE]]
    ELSE [service_add_log(
            update_status(
                IF id \in DOMAIN s.execution_controls
                THEN [s EXCEPT !.execution_controls[id].paused = TRUE]
                ELSE s, id, "paused"),
            id, "info", "Execution paused")
            EXCEPT !.last = [op |-> "pause", id |-> id, result |-> TRUE]]

\* resume_execution
resume_execution(s, id) ==
    IF id \notin DOMAIN s.executions \/ s.executions[id].status # "paused"
    THEN [s EXCEPT !.last = [op |-> "resume", id |-> id, result |-> FALSE]]
    ELSE [service_add_log(
            update_status(
                IF id \in DOMAIN s.execution_controls
                THEN [s EXCEPT !.execution_controls[id].paused = FALSE]
                ELSE s, id, "running"),
            id, "info", "Execution resumed")
            EXCEPT !.last = [op |-> "resume", id |-> id, result |-> TRUE]]

Remove(seq, i) == [j \in 1..(Len(seq) - 1) |-> IF j < i THEN seq[j] ELSE seq[j + 1]]

\* the coroutine of the task ended: epilogue and finally
task_returns(s, t, c) ==
    [drop_handle(task_epilogue(s, s.tasks[t].id, c), s.tasks[t].id)
        EXCEPT !.tasks[t].state = "done"]

\* one step of the asyncio task t; the pairs <<service, run>> it can lead to
TaskSteps(s, t, c) ==
    LET task == s.tasks[t] IN
    CASE task.state = "created" /\ task.must_cancel ->
            \* cancelled before its first step: no line of the coroutine runs
            {<<[s EXCEPT !.tasks[t].state = "cancelled"], c>>}
      [] task.state = "created" /\ ~task.must_cancel ->
            LET c1 == advance([start(c) EXCEPT !.epc = "start_log"], "valid")
                s1 == task_prologue(s, task.id)
            IN {IF Terminated(c1) THEN <<task_returns(s1, t, c1), c1>>
                ELSE <<[s1 EXCEPT !.tasks[t].state = "suspended"], c1>>}
      [] task.state = "suspended" /\ task.must_cancel ->
            {<<[drop_handle(s, task.id) EXCEPT !.tasks[t].state = "cancelled"],
               cancel_run(c)>>}
      [] task.state = "suspended" /\ ~task.must_cancel ->
            {IF Terminated(c1) THEN <<task_returns(s, t, c1), c1>>
             ELSE <<s, c1>> : c1 \in RunSteps(c, s.registry)}
      [] OTHER -> {}

InitService ==
    /\ svc = NewService
    /\ runs = <<>>
    /\ hist = <<>>
    /\ resolved = NoCall

\* POST /execute: ExecutionService.execute_workflow; a definition that
\* WorkflowDefinition rejects makes it raise ExecutionServiceError (lines
\* 99-102), any other gets the initial record returned
Submit ==
    \E id \in ExecutionIds, def \in ServiceDefinitions :
        /\ svc.submits < MaxSubmits
        /\ IF def.valid
           THEN /\ svc' = [service_execute_workflow(svc, id, Len(runs) + 1)
                             EXCEPT !.submits = @ + 1,
                                    !.stop_returned = @ \ {id},
                                    !.last = [op |-> "submit", id |-> id,
                                              raised |-> FALSE]]
                /\ runs' = Append(runs, NewContext(def.nodes, def.types,
                                                   def.edges, "manager",
                                                   RunInput))
                /\ hist' = Append(hist, NewHist)
           ELSE /\ svc' = [svc EXCEPT !.submits = @ + 1,
                                      !.last = [op |-> "submit", id |-> id,
                                                raised |-> TRUE]]
                /\ UNCHANGED <<runs, hist>>
        /\ UNCHANGED resolved

\* workflow_engine.register_executor("task", a NodeExecutor subclass)
RegisterExecutor ==
    /\ "task" \notin DOMAIN svc.registry
    /\ svc' = [svc EXCEPT !.registry = Put(@, "task", "custom")]
    /\ UNCHANGED <<runs, hist, resolved>>

\* the event loop runs the background task of an execution for one step
BackgroundTask ==
    \E t \in DOMAIN svc.tasks :
        \E p \in TaskSteps(svc, t, runs[t]) :
            /\ svc' = p[1]
            /\ runs' = [runs EXCEPT ![t] = p[2]]
            /\ hist' = [hist EXCEPT ![t] = Observe(@, runs[t], p[2])]
            /\ UNCHANGED resolved

\* stop_execution is called and runs up to `await task` or to its end
Stop ==
    \E id \in ExecutionIds :
        /\ svc.controls < MaxControls
        /\ svc' = [stop_execution(svc, id) EXCEPT !.controls = @ + 1]
        /\ UNCHANGED <<runs, hist, resolved>>

\* a stop_execution suspended at `await task` goes on: the task is over
StopAwaited ==
    \E i \in DOMAIN svc.stops :
        /\ TaskOver(svc.tasks[svc.stops[i].task])
        /\ svc' = [finish_stop(svc, svc.stops[i].id, TRUE)
                      EXCEPT !.stops = Remove(@, i)]
        /\ UNCHANGED <<runs, hist, resolved>>

Pause ==
    \E id \in ExecutionIds :
        /\ svc.controls < MaxControls
        /\ svc' = [pause_execution(svc, id) EXCEPT !.controls = @ + 1]
        /\ UNCHANGED <<runs, hist, resolved>>

Resume ==
    \E id \in ExecutionIds :
        /\ svc.controls < MaxControls
        /\ svc' = [resume_execution(svc, id) EXCEPT !.controls = @ + 1]
        /\ UNCHANGED <<runs, hist, resolved>>

NextService ==
    \/ Submit
    \/ RegisterExecutor
    \/ BackgroundTask
    \/ Stop
    \/ StopAwaited
    \/ Pause
    \/ Resume

SpecService == InitService /\ [][NextService]_vars

----------------------------------------------------------------------------
(* Claims about the ExecutionService, checked under SpecService *)

TerminalStatuses == {"completed", "failed", "stopped"}

\* the stop call that returned last found the background task of its
\* execution in progress: it cancelled the task and waited for it
StopOfTaskInProgressReturned(id) ==
    svc.last = [op |-> "stop", id |-> id, result |-> TRUE, awaited |-> TRUE]

\* C8: once a stop called on an execution whose background task was in
\* progress has returned, the record's status is stopped and its
\* completed_at is set
C8_StopSetsCompletedAt ==
    \A id \in ExecutionIds :
        StopOfTaskInProgressReturned(id) =>
            /\ svc.executions[id].status = "stopped"
            /\ svc.executions[id].completed_at # 0

\* the status part of C8: at the moment a stop returns true the record's
\* status is stopped
C8_StopReturnsWithStatusStopped ==
    [][(/\ svc'.last # svc.last
        /\ svc'.last.op = "stop"
        /\ svc'.last.result = TRUE)
       => svc'.executions[svc'.last.id].status = "stopped"]_vars

\* the nodes of the run c that began between c and c2
Started(c, c2) ==
    {n \in NodeIds : Status(c, n) = "absent" /\ Status(c2, n) # "absent"}

C10_TerminalRecordFrozen ==
    [][\A id \in DOMAIN svc.executions :
          (/\ svc.executions[id].status \in TerminalStatuses
           /\ id \in DOMAIN svc'.executions
           /\ svc'.executions[id].record = svc.executions[id].record)
          => /\ svc'.executions[id].status = svc.executions[id].status
             /\ svc'.executions[id].output_data = svc.executions[id].output_data
             /\ svc'.executions[id].error_message
                    = svc.executions[id].error_message]_vars

\* the record of a terminal execution keeps its output_data and
\* error_message; only the status is overwritten
C10_TerminalRecordKeepsResult ==
    [][\A id \in DOMAIN svc.executions :
          (/\ svc.executions[id].status \in TerminalStatuses
           /\ id \in DOMAIN svc'.executions
           /\ svc'.executions[id].record = svc.executions[id].record)
          => svc'.executions[id].output_data = svc.executions[id].output_data]_vars


----------------------------------------------------------------------------
(* Claims about pause, resume and stop, checked under SpecService *)

\* between two steps of the event loop no record of the service is running
\* or paused: the background task goes from running to failed within its
\* first step (status_callback raises on the first event), so pause_execution
\* never finds a running record
NoRecordRunningOrPaused ==
    \A id \in DOMAIN svc.executions :
        svc.executions[id].status \notin {"running", "paused"}


\* C11: a record whose status is paused changes its status only to running,
\* by resume_execution, or to stopped, by stop_execution; the background
\* task never moves a paused record to completed or failed
C11_PausedOnlyResumesOrStops ==
    [][\A id \in DOMAIN svc.executions :
          (/\ svc.executions[id].status = "paused"
           /\ id \in DOMAIN svc'.executions
           /\ svc'.executions[id].record = svc.executions[id].record
           /\ svc'.executions[id].status # "paused")
          => \/ /\ svc'.executions[id].status = "running"
                /\ svc'.last = [op |-> "resume", id |-> id, result |-> TRUE]
             \/ /\ svc'.executions[id].status = "stopped"
                /\ svc'.last.op = "stop"
                /\ svc'.last.id = id]_vars


\* what a control call that returns false has to leave alone
ControlState(s) ==
    <<s.executions, s.execution_logs, s.execution_controls,
      s.execution_tasks, s.tasks>>

\* C12: pause_execution returns true exactly when the execution exists and is
\* running, resume_execution exactly when it exists and is paused, and
\* stop_execution returns false exactly when the id is unknown; a call that
\* returns false leaves records, logs, control flags and task handles as
\* they were
C12_ControlCallsReturn ==
    [][svc'.controls # svc.controls =>
         LET op == svc'.last.op
             id == svc'.last.id
             known == id \in DOMAIN svc.executions
         IN /\ op = "pause" =>
                  svc'.last.result
                      = (known /\ svc.executions[id].status = "running")
            /\ op = "resume" =>
                  svc'.last.result
                      = (known /\ svc.executions[id].status = "paused")
            /\ op = "stop" => svc'.last.result = known
            /\ op = "stop_waits" => known
            /\ (op \in {"stop", "pause", "resume"} /\ ~svc'.last.result)
                  => ControlState(svc') = ControlState(svc)]_vars

\* a pause of a known execution whose background task has ended (status
\* failed, not running) has returned false
C12_Witness ==
    /\ svc.last.op = "pause"
    /\ svc.last.id \in DOMAIN svc.executions
    /\ svc.executions[svc.last.id].status = "failed"
    /\ ~svc.last.result


\* C13: a stop_execution called on an execution for which a stop has already
\* returned true, the record still stopped, returns true and leaves the
\* status, the control flags, completed_at and the task handles as they were
C13_StopIdempotent ==
    [][\A id \in svc.stop_returned :
          (/\ svc'.controls # svc.controls
           /\ svc'.last.op \in {"stop", "stop_waits"}
           /\ svc'.last.id = id
           /\ svc.executions[id].status = "stopped")
          => /\ svc'.last.op = "stop"
             /\ svc'.last.result
             /\ svc'.executions[id].status = "stopped"
             /\ svc'.executions[id].completed_at
                    = svc.executions[id].completed_at
             /\ svc'.execution_controls = svc.execution_controls
             /\ svc'.execution_tasks = svc.execution_tasks]_vars


\* the background tasks created for the execution id
TasksOf(s, id) == {t \in DOMAIN s.tasks : s.tasks[t].id = id}

\* the same for an execution that was submitted once: there the second stop
\* returns true at once and changes nothing but the log
C13_StopIdempotentSubmittedOnce ==
    [][\A id \in svc.stop_returned :
          (/\ svc'.controls # svc.controls
           /\ svc'.last.op \in {"stop", "stop_waits"}
           /\ svc'.last.id = id
           /\ svc.executions[id].status = "stopped"
           /\ Cardinality(TasksOf(svc, id)) = 1)
          => /\ svc'.last = [op |-> "stop", id |-> id, result |-> TRUE,
                             awaited |-> FALSE]
             /\ svc'.executions[id].status = "stopped"
             /\ svc'.executions[id].completed_at
                    = svc.executions[id].completed_at
             /\ svc'.execution_controls = svc.execution_controls
             /\ svc'.execution_tasks = svc.execution_tasks]_vars


----------------------------------------------------------------------------
(* Claims about the observer callback, checked under SpecEngine *)

\* the callback's error shows nowhere in the run c: execute_workflow
\* returned, no run() raised the error or reported it, every node whose
\* execute returned a NodeResult has the status of that result and, if it
\* is success, its output stored
CallbackErrorsUnseen(c) ==
    /\ c.epc # "raised"
    /\ ~Contains(c.error, CallbackError)
    /\ ~Contains(c.ret.error, CallbackError)
    /\ \A n \in DOMAIN c.results :
          /\ c.results[n] # ExceptionOf(CallbackError)
          /\ c.results[n].kind = "result"
                => ~Contains(c.results[n].error, CallbackError)
    /\ \A n \in NodeIds :
          c.result[n].kind = "result" =>
              /\ Status(c, n) = c.result[n].status
              /\ c.result[n].status = "success" => n \in DOMAIN c.node_outputs

\* C14: whatever the callback does, a run that is over shows no trace of the
\* callback's errors: node statuses, node outputs and the result are those
\* the executors produced and neither run nor execute_workflow raised
C14_CallbackErrorsNeverAffect ==
    \A r \in DOMAIN runs :
        Terminated(runs[r]) => CallbackErrorsUnseen(runs[r])

\* the same for the runs without a callback or with one that returns
C14_ReturningCallbackNeverAffects ==
    \A r \in DOMAIN runs :
        (Terminated(runs[r]) /\ runs[r].cb \in {"none", "ok"})
            => CallbackErrorsUnseen(runs[r])


----------------------------------------------------------------------------
(* Claims about the life of a record, checked under SpecService *)

\* the execution id was submitted once, no stop, pause or resume was ever
\* called, its background task t has returned and no node of its run failed
RanUndisturbed(id, t) ==
    /\ TasksOf(svc, id) = {t}
    /\ svc.controls = 0
    /\ svc.tasks[t].state = "done"
    /\ \A n \in NodeIds : Status(runs[t], n) \notin {"failed", "skipped"}

\* C15: when the background task of a valid acyclic definition has returned,
\* no node having failed and no stop having been called, the record is
\* completed: output_data is the engine's final output, progress is 1 and
\* completed_at is set
C15_UndisturbedRunCompletes ==
    \A id \in DOMAIN svc.executions :
        \A t \in DOMAIN svc.tasks :
            RanUndisturbed(id, t) =>
                /\ svc.executions[id].status = "completed"
                /\ svc.executions[id].output_data = runs[t].ret.output
                /\ svc.executions[id].progress = 1
                /\ svc.executions[id].completed_at # 0


----------------------------------------------------------------------------
(* Claims about the executors of the service, checked under SpecEngine *)

\* the node n of the run c has a type for which the engine holds the class
\* _create_workflow_engine registers
BuiltinNode(c, n) ==
    /\ c.types[n] \in BuiltinTypes
    /\ c.types[n] \in DOMAIN svc.registry
    /\ svc.registry[c.types[n]] = "builtin"

\* C16: a dispatched node of a built-in type registered by the service gets
\* its executor constructed and reaches run: it has a node status and the
\* dispatch did not fail at the construction
C16_BuiltinExecutorsConstructible ==
    \A r \in DOMAIN runs : \A n \in NodeIds :
        (/\ n \in DOMAIN runs[r].types
         /\ BuiltinNode(runs[r], n)
         /\ runs[r].npc[n] \notin {"idle", "scheduled"})
        => /\ Status(runs[r], n) # "absent"
           /\ Get(runs[r].results, n, NoResult) # ExceptionOf(DispatchError(n))


\* the same for the classes that keep the constructor of NodeExecutor, such
\* as the executors the repository's tests register
C16_CustomExecutorsConstructible ==
    \A r \in DOMAIN runs : \A n \in NodeIds :
        (/\ n \in DOMAIN runs[r].types
         /\ runs[r].types[n] \in DOMAIN svc.registry
         /\ svc.registry[runs[r].types[n]] = "custom"
         /\ runs[r].npc[n] \notin {"idle", "scheduled"})
        => /\ Status(runs[r], n) # "absent"
           /\ Get(runs[r].results, n, NoResult) # ExceptionOf(DispatchError(n))


\* C17: no call of execute_workflow raises: whatever the definition, a
\* malformed one included, the call returns
C17_SubmitNeverRaises ==
    [][svc'.submits # svc.submits => ~svc'.last.raised]_vars

\* a call of execute_workflow that raises leaves the service as it was: no
\* record, no log, no control flags, no task
C17_RejectedSubmitCreatesNothing ==
    [][(svc'.submits # svc.submits /\ svc'.last.raised)
         => ControlState(svc') = ControlState(svc)]_vars


----------------------------------------------------------------------------
(* Claims about completed_at; the fields started_at and completed_at of the
   model count the assignments made to them *)

\* completed_at of the record of id was assigned once if the status is
\* terminal and never otherwise
RecordCompletedAtOnce(id) ==
    IF svc.executions[id].status \in TerminalStatuses
    THEN svc.executions[id].completed_at = 1
    ELSE svc.executions[id].completed_at = 0

\* the same for the ExecutionContext c: complete() and fail() were not both
\* applied
ContextCompletedAtOnce(c) ==
    IF c.status \in {"completed", "failed"}
    THEN c.completed_at = 1
    ELSE c.completed_at = 0

\* C18: completed_at is assigned exactly once, at the terminal transition:
\* it is unset while the status is pending, running or paused, set in every
\* terminal status and never assigned again, in the records of the service
\* and in the contexts of its runs
C18_CompletedAtOnce ==
    /\ \A id \in DOMAIN svc.executions : RecordCompletedAtOnce(id)
    /\ \A t \in DOMAIN runs : ContextCompletedAtOnce(runs[t])

\* the part of C18 about the context, for the runs of an engine driven
\* directly: violated when the callback raises on the event of complete(),
\* since execute_workflow then applies fail() as well
C18_ContextCompletedAtOnce ==
    \A r \in DOMAIN runs : ContextCompletedAtOnce(runs[r])

\* without a callback that raises complete() and fail() exclude each other
C18_ContextCompletedAtOnceNoCallback ==
    \A r \in DOMAIN runs :
        runs[r].cb \in {"none", "ok"} => ContextCompletedAtOnce(runs[r])


----------------------------------------------------------------------------
(* Claims about resolve_variables, checked under SpecContext *)

\* the values the segment seg names in the keyed containers of vals
Below(vals, seg) ==
    {v.d[Key(seg)] : v \in {w \in vals : w.t = "dict"
                                         /\ Key(seg) \in DOMAIN w.d}} \ {None}

RECURSIVE Reached(_, _)
\* the value a dotted path descends to through the variables map: none, or
\* the one value found by naming the path's segments one after the other
Reached(variables, path) ==
    IF path = <<>> THEN {DictV(variables)}
    ELSE Below(Reached(variables, SubSeq(path, 1, Len(path) - 1)),
               path[Len(path)])

\* what the claim makes of an item of a text: the string form of the value
\* a token's path descends to, the token as it is written when there is no
\* such value, and the text outside the tokens as it is
Expected(c, item) ==
    IF item.kind = "lit" THEN item.s
    ELSE IF Reached(c.variables, item.path) # {}
    THEN str(CHOOSE v \in Reached(c.variables, item.path) : TRUE)
    ELSE item.raw

\* C19: resolve_variables returns the text with every token whose path
\* descends through variables to a value replaced by the string form of the
\* value, blanks inside the braces being ignored, every other token left
\* exactly as written and the text outside the tokens unchanged
C19_TokensResolved ==
    [][resolved' # resolved =>
         resolved'.value =
             Flatten([i \in 1..Len(resolved'.source) |->
                         Expected(runs[1], resolved'.source[i])])]_vars

\* 'Hello {{input.user.name}} - {{missing}}' was resolved with a user name in
\* the input: the first token is replaced, the second left as written
C19_Witness ==
    /\ resolved.kind = "call"
    /\ resolved.source =
          <<Lit(<<"Hello", " ">>), Tok(<<"input", "user", "name">>, FALSE),
            Lit(<<" ", "-", " ">>), Tok(<<"missing">>, FALSE)>>
    /\ resolved.value = <<"Hello", " ", "Bob", " ", "-", " ",
                          "{", "{", "missing", "}", "}">>


\* C20: resolving is idempotent: the string resolve_variables returns is
\* returned unchanged when it is resolved again in the same context,
\* whatever the values of the variables, and a text without a token is
\* returned as it is
C20_ResolveIdempotent ==
    [][resolved' # resolved =>
         /\ resolve_variables(runs[1], resolved'.value) = resolved'.value
         /\ (\A i \in 1..Len(resolved'.source) :
                resolved'.source[i].kind = "lit")
               => resolved'.value = Render(resolved'.source)]_vars

\* as long as no variable holds a str with a token in it (x is unset), the
\* string returned is resolved to itself: the braces of the string form of
\* a dict make no token
C20_IdempotentWithoutTokenValues ==
    [][(resolved' # resolved /\ Key("x") \notin DOMAIN runs[1].variables)
         => resolve_variables(runs[1], resolved'.value) = resolved'.value]_vars

\* a text without a token is returned as it is
C20_NoTokenUnchanged ==
    [][resolved' # resolved =>
         ((\A i \in 1..Len(resolved'.source) :
              resolved'.source[i].kind = "lit")
            => resolved'.value = Render(resolved'.source))]_vars


----------------------------------------------------------------------------
(* Claims about the edges of a definition, checked under SpecEngine *)

\* the edge list has an edge from a node to itself
SelfLoop(edges) == \E i \in 1..Len(edges) : edges[i][1] = edges[i][2]

\* every edge joins two nodes of the definition
KnownEndpoints(c) ==
    \A i \in 1..Len(c.edges) :
        c.edges[i][1] \in Range(c.nodes) /\ c.edges[i][2] \in Range(c.nodes)

\* C21: a definition with a self-loop and no cycle through two or more
\* nodes is not rejected as circular: a run of it that is over does not
\* carry the error of the cycle check
C21_SelfLoopNotRejected ==
    \A r \in DOMAIN runs :
        (/\ Terminated(runs[r])
         /\ runs[r].cb = "none"
         /\ KnownEndpoints(runs[r])
         /\ SelfLoop(runs[r].edges)
         /\ ~Cyclic(runs[r].edges))
        => ~Contains(runs[r].error, CircularError)

\* a definition with a self-loop never completes: every run of it that is
\* over has failed
C21_SelfLoopNeverCompletes ==
    \A r \in DOMAIN runs :
        (Terminated(runs[r]) /\ SelfLoop(runs[r].edges))
            => runs[r].ret.status # "completed"


\* the pairs <<u, v>>, u # v, that occur more than once in the edge list
DuplicateEdges(edges) ==
    {edges[i] : i \in {k \in 1..Len(edges) :
                          /\ edges[k][1] # edges[k][2]
                          /\ \E j \in 1..Len(edges) : j # k /\ edges[j] = edges[k]}}

\* the number of times node n became running
TimesStarted(h, n) ==
    Cardinality({i \in 1..Len(h.start_order) : h.start_order[i] = n})

\* every node of the definition has the status success
AllSucceeded(c) == \A n \in Range(c.nodes) : Status(c, n) = "success"

\* the run r of a definition with the edge u -> v written twice goes as with
\* the edge written once: v is handed to gather only when u has one of the
\* statuses ok, v starts at most once, and the run is completed when it is
\* over with every node successful
DuplicateEdgeTolerated(r, u, v, ok) ==
    /\ runs[r].npc[v] # "idle" => Status(runs[r], u) \in ok
    /\ TimesStarted(hist[r], v) <= 1
    /\ (Terminated(runs[r]) /\ AllSucceeded(runs[r]))
          => runs[r].ret.status = "completed"

\* C22: a definition in which an edge u -> v occurs several times runs like
\* the one with the edge once: v becomes ready only after u has succeeded,
\* v is dispatched once, and the run is completed when all nodes succeed
C22_DuplicateEdgesTolerated ==
    \A r \in DOMAIN runs :
        (runs[r].cb = "none" /\ KnownEndpoints(runs[r])) =>
            \A e \in DuplicateEdges(runs[r].edges) :
                DuplicateEdgeTolerated(r, e[1], e[2], {"success"})

\* the same with a skipped u counted like a successful one, as the engine
\* does for every edge
C22_DuplicateEdgesLikeOne ==
    \A r \in DOMAIN runs :
        (runs[r].cb = "none" /\ KnownEndpoints(runs[r])) =>
            \A e \in DuplicateEdges(runs[r].edges) :
                DuplicateEdgeTolerated(r, e[1], e[2], {"success", "skipped"})

\* a run of a definition with a duplicate edge has completed
C22_DuplicateEdgeRunCompleted ==
    \E r \in DOMAIN runs :
        /\ DuplicateEdges(runs[r].edges) # {}
        /\ runs[r].ret.status = "completed"
        /\ AllSucceeded(runs[r])


\* C23: a definition with an edge whose source or target is no node's id is
\* rejected at validation: no node of its run ever starts, so no execute is
\* invoked, and the run ends failed
C23_UnknownEndpointRejected ==
    \A r \in DOMAIN runs :
        (runs[r].cb = "none" /\ ~KnownEndpoints(runs[r])) =>
            /\ DOMAIN runs[r].node_statuses = {}
            /\ \A n \in NodeIds : runs[r].npc[n] # "executing"
            /\ Terminated(runs[r]) => runs[r].ret.status = "failed"

\* the run of such a definition does end failed, whenever it ends
C23_UnknownEndpointFails ==
    \A r \in DOMAIN runs :
        (~KnownEndpoints(runs[r]) /\ Terminated(runs[r]))
            => runs[r].ret.status # "completed"


----------------------------------------------------------------------------
\* the nodes of the definition whose type is output
OutputTyped(c) == {n \in Range(c.nodes) : c.types[n] = "output"}

C24_MapReturned ==
    \E r \in DOMAIN runs :
        /\ runs[r].ret.status = "completed"
        /\ OutputTyped(runs[r]) = {}
        /\ runs[r].ret.output.t = "dict"
        /\ \E n \in runs[r].executed_nodes :
              runs[r].ret.output.d[Key(n)] = NodeOutput(n)


----------------------------------------------------------------------------
\* no directed path from x to y or from y to x
Unrelated(edges, x, y) ==
    /\ x # y
    /\ y \notin Reach(edges, {x}, Len(edges))
    /\ x \notin Reach(edges, {y}, Len(edges))

\* every predecessor of x has succeeded
DependencyReady(c, x) ==
    \A i \in 1..Len(c.edges) :
        c.edges[i][2] = x => Status(c, c.edges[i][1]) = "success"

HasPredecessor(c, x) == \E i \in 1..Len(c.edges) : c.edges[i][2] = x

\* the place of n in the sequence s
IndexOf(s, n) == Min({i \in 1..Len(s) : s[i] = n})

\* C25: the order in which two nodes with no directed path between them
\* start is free: while the run is going, whenever both have all their
\* predecessors succeeded and neither has started, either of them can be the
\* next node to start
C25_OrderUnconstrained ==
    \A r \in DOMAIN runs :
        \A x, y \in Range(runs[r].nodes) :
            (/\ Unrelated(runs[r].edges, x, y)
             /\ KnownEndpoints(runs[r])
             /\ runs[r].epc = "gather"
             /\ ~InCallback(runs[r])
             /\ ~BatchDone(runs[r])
             /\ \A n \in NodeIds : Status(runs[r], n) # "failed"
             /\ \A n \in DOMAIN runs[r].results :
                    runs[r].results[n].kind # "exception"
             /\ Status(runs[r], x) = "absent"
             /\ Status(runs[r], y) = "absent"
             /\ DependencyReady(runs[r], x)
             /\ DependencyReady(runs[r], y))
            => NextToStart(runs[r], x) /\ NextToStart(runs[r], y)

\* C25 as the code has it: the order of the starts is fixed. A node without
\* predecessors starts before every node that has one, and two nodes without
\* predecessors start in the order of the definition's list of nodes
C25_StartOrderFixed ==
    \A r \in DOMAIN runs :
        LET c == runs[r]
            order == hist[r].start_order
        IN \A i, j \in 1..Len(order) :
              i < j =>
                  /\ HasPredecessor(c, order[i]) => HasPredecessor(c, order[j])
                  /\ (~HasPredecessor(c, order[i]) /\ ~HasPredecessor(c, order[j]))
                        => \E a, b \in 1..Len(c.nodes) :
                              a < b /\ c.nodes[a] = order[i] /\ c.nodes[b] = order[j]

\* a successor of a root and another root, with no path between them, have
\* both started
C25_Witness ==
    \E r \in DOMAIN runs :
        \E x, y \in Range(hist[r].start_order) :
            /\ Unrelated(runs[r].edges, x, y)
            /\ HasPredecessor(runs[r], x)
            /\ ~HasPredecessor(runs[r], y)
            /\ IndexOf(runs[r].nodes, x) < IndexOf(runs[r].nodes, y)


----------------------------------------------------------------------------
\* the nodes whose execute is invoked in the step from c to c2
Invoked(c, c2) ==
    {n \in NodeIds : c2.npc[n] = "executing" /\ c.npc[n] # "executing"}

\* C26: the core never retries: the execute of a node is invoked at most
\* once in a run (when it is invoked the node has started once and its
\* execute has not returned before), and once a node has the status failed
\* no node's execute is invoked in that run
C26_NeverRetries ==
    [][\A r \in DOMAIN runs :
          \A n \in Invoked(runs[r], runs'[r]) :
              /\ TimesStarted(hist'[r], n) = 1
              /\ runs[r].result[n] = NoResult
              /\ n \notin DOMAIN runs[r].results
              /\ \A m \in NodeIds : Status(runs[r], m) # "failed"]_vars

\* C26 for what the code does: no execute is invoked twice, and an execute
\* invoked after a node failed is that of a node of the failed node's batch
C26_NoRetryButBatchGoesOn ==
    [][\A r \in DOMAIN runs :
          \A n \in Invoked(runs[r], runs'[r]) :
              /\ TimesStarted(hist'[r], n) = 1
              /\ runs[r].result[n] = NoResult
              /\ n \notin DOMAIN runs[r].results
              /\ \A m \in NodeIds :
                    Status(runs[r], m) = "failed" =>
                        {m, n} \subseteq Range(runs[r].current_batch)]_vars


----------------------------------------------------------------------------
\* the coroutine of run(n) is over and n has the status failed
EndedFailed(c, n) == c.npc[n] = "done" /\ Status(c, n) = "failed"

HasLog(c, n, level) ==
    \E i \in 1..Len(c.logs) : c.logs[i].level = level /\ c.logs[i].node_id = n

\* C27: every node that ended with the status failed has a log entry of
\* level error with its node_id, whether its validation failed, its execute
\* raised or its execute returned a result with the status failed
C27_FailedNodeHasErrorLog ==
    \A r \in DOMAIN runs :
        \A n \in Range(runs[r].nodes) :
            EndedFailed(runs[r], n) => HasLog(runs[r], n, "error")

\* C27 for the except branches of run: when no callback raises, a node that
\* ended failed has an entry of level error unless its execute returned the
\* status failed, and then it has an entry of level warning and none of
\* level error
C27_ReturnedFailedLogsWarning ==
    \A r \in DOMAIN runs :
        \A n \in Range(runs[r].nodes) :
            (EndedFailed(runs[r], n) /\ runs[r].cb \in {"none", "ok"}) =>
                IF runs[r].result[n] # NoResult
                THEN /\ runs[r].result[n].status = "failed"
                     /\ HasLog(runs[r], n, "warning")
                     /\ ~HasLog(runs[r], n, "error")
                ELSE HasLog(runs[r], n, "error")


----------------------------------------------------------------------------
(* TransformNodeExecutor, run directly on a node configuration *)

TRANSFORM_TYPES == {"mapping", "filter", "merge", "extract", "custom"}

\* a key that the configuration does not hold
Absent == [t |-> "absent"]

\* a list or dict of the configuration: only its type and emptiness decide
\* what validate_config does
Collection(state) == [t |-> "collection", state |-> state]

\* the values of 'transform_type', of 'mappings', 'fields' and 'sources', and
\* of 'expression' in the configurations of the runs
TransformTypeValues == {Absent} \cup {StrV(x) : x \in TRANSFORM_TYPES \cup {"sort"}}
FieldValues == {Absent, StrV("name"), Collection("empty"), Collection("given")}
Expressions ==
    {Absent, IntV(1), StrOf(<<>>), StrOf(<<" ">>), StrV("input"),
     StrV("len(input)"), StrV("1/0"),
     StrOf(Render(<<Tok(<<"input", "age">>, FALSE)>>))}

NodeConfigs ==
    [transform_type : TransformTypeValues, mappings : FieldValues,
     fields : FieldValues, sources : FieldValues, expression : Expressions]

Raises(msg) == [raised |-> TRUE, msg |-> msg]
Returns(value) == [raised |-> FALSE, value |-> value]

\* validate_config: returns True or raises NodeValidationError
validate_config(config) ==
    LET tt == config.transform_type
        field == IF tt = StrV("mapping") THEN config.mappings
                 ELSE IF tt = StrV("merge") THEN config.sources
                 ELSE config.fields
    IN IF tt = Absent THEN Raises(<<"Missing required field: transform_type">>)
       ELSE IF tt \notin {StrV(x) : x \in TRANSFORM_TYPES}
       THEN Raises(<<"Invalid transform_type: ">> \o tt.s)
       ELSE IF tt = StrV("custom")
       THEN IF config.expression = Absent
            THEN Raises(<<"custom type requires 'expression' field">>)
            ELSE IF config.expression.t # "str" \/ strip(config.expression.s) = <<>>
            THEN Raises(<<"expression must be a non-empty string">>)
            ELSE Returns(TRUE)
       ELSE IF field = Absent THEN Raises(tt.s \o <<" type requires a field">>)
       ELSE IF field # Collection("given")
       THEN Raises(<<"must be a non-empty collection">>)
       ELSE Returns(TRUE)

\* _resolve_config_variables: every str of the configuration goes through
\* resolve_variables
resolve_config_variables(config, c) ==
    [k \in DOMAIN config |->
        IF config[k].t = "str"
        THEN StrOf(resolve_variables(c, config[k].s)) ELSE config[k]]

\* eval(expression, safe_globals, safe_locals) for the expressions of the
\* runs: the name input, a call of a builtin, a literal; anything else
\* raises (ZeroDivisionError, TypeError for a token left as it was)
eval(expression, input) ==
    CASE expression = <<"input">> -> Returns(input)
      [] expression = <<"len(input)">> ->
            Returns(IntV(Cardinality(DOMAIN input.d)))
      [] expression = <<"30">> -> Returns(IntV(30))
      [] OTHER -> Raises(<<"Error evaluating custom expression">>)

\* _execute_custom with no source_node: the run t evaluates the expression
execute_custom(t) ==
    LET e == eval(t.resolved_config.expression.s,
                  t.context.variables[Key("input")])
        t1 == [t EXCEPT !.evaluated = Append(@, t.resolved_config.expression.s)]
    IN IF e.raised
       THEN [t1 EXCEPT !.context = add_log(@, "error", e.msg, t.node_id),
                       !.execute = Raises(e.msg)]
       ELSE [t1 EXCEPT !.context = add_log(@, "info",
                                     "Custom expression evaluated successfully",
                                     t.node_id),
                       !.execute = Returns(e.value)]

\* what _execute_mapping, _execute_filter, _execute_extract and
\* _execute_merge can do; their bodies are not followed
TransformOutcomes == {"returns", "raises"}

TransformOutput == DictV(Put(EmptyMap, Key("transformed"), StrV("yes")))

\* execute lines 149-187, after the log entry of line 152
transform_execute(t, o) ==
    LET t1 == [t EXCEPT !.context = add_log(@, "info",
                                     "Executing transform type", t.node_id)]
        t2 == IF t.resolved_config.transform_type = StrV("custom")
              THEN execute_custom(t1)
              ELSE [t1 EXCEPT !.execute =
                        IF o = "returns" THEN Returns(TransformOutput)
                        ELSE Raises(<<"Unexpected error in transform node">>)]
    IN IF t2.execute.raised THEN t2
       ELSE [t2 EXCEPT !.context = add_log(@, "info", "Transform completed",
                                           t.node_id)]

\* the except branches of NodeExecutor.run
transform_failed(t, msg) ==
    [t EXCEPT !.context = add_log(set_node_status(@, t.node_id, "failed"),
                                  "error", msg, t.node_id),
              !.result = ResultOf(t.node_id, "failed", None, msg),
              !.pc = "done"]

\* run lines 100-111: status running, the log entry, validate_config
transform_run_validate(t) ==
    LET c == add_log(set_node_status(t.context, t.node_id, "running"),
                     "info", "started", t.node_id)
        t1 == [t EXCEPT !.context = c]
        v == validate_config(t.node_config)
    IN IF v.raised
       THEN transform_failed(t1, <<"Configuration validation failed: ">> \o v.msg)
       ELSE [t1 EXCEPT !.pc = "resolve"]

\* run lines 117-118
transform_run_resolve(t) ==
    [t EXCEPT !.resolved_config = resolve_config_variables(t.node_config, t.context),
              !.pc = "execute"]

\* run lines 120-146: execute, then the status, the output and the log entry
transform_run_execute(t, o) ==
    LET t1 == transform_execute(t, o)
    IN IF t1.execute.raised
       THEN transform_failed(t1, <<"Execution failed: ">> \o t1.execute.msg)
       ELSE [t1 EXCEPT !.context =
                 add_log(set_node_output(set_node_status(@, t.node_id, "success"),
                                         t.node_id, t1.execute.value),
                         "info", "completed successfully", t.node_id),
                       !.result = ResultOf(t.node_id, "success",
                                           t1.execute.value, <<>>),
                       !.pc = "done"]

NewTransformRun(config, input_data) ==
    [node_id |-> "n1", node_config |-> config, resolved_config |-> config,
     context |-> NewContext(<<"n1">>, [n \in {"n1"} |-> "transform"], <<>>,
                            "none", input_data),
     pc |-> "created", execute |-> Returns(None), evaluated |-> <<>>,
     result |-> NoResult]

InitTransform ==
    /\ \E config \in NodeConfigs, input_data \in InputDatas :
          runs = <<NewTransformRun(config, input_data)>>
    /\ hist = <<>>
    /\ resolved = NoCall
    /\ svc = NoService

TransformStep(r, t) ==
    /\ runs' = [runs EXCEPT ![r] = t]
    /\ UNCHANGED <<hist, resolved, svc>>

RunValidate ==
    \E r \in DOMAIN runs :
        /\ runs[r].pc = "created"
        /\ TransformStep(r, transform_run_validate(runs[r]))

RunResolve ==
    \E r \in DOMAIN runs :
        /\ runs[r].pc = "resolve"
        /\ TransformStep(r, transform_run_resolve(runs[r]))

RunExecute ==
    \E r \in DOMAIN runs :
        /\ runs[r].pc = "execute"
        /\ \E o \in TransformOutcomes :
              TransformStep(r, transform_run_execute(runs[r], o))

NextTransform ==
    \/ RunValidate
    \/ RunResolve
    \/ RunExecute

SpecTransform == InitTransform /\ [][NextTransform]_vars

\* C28: a transform node of type custom is rejected when its configuration
\* is validated: its expression is never evaluated, it never gets to
\* execute, and its run ends failed
C28_CustomRejectedAtValidation ==
    \A r \in DOMAIN runs :
        runs[r].node_config.transform_type = StrV("custom") =>
            /\ runs[r].evaluated = <<>>
            /\ runs[r].pc \notin {"resolve", "execute"}
            /\ runs[r].pc = "done" =>
                  /\ Status(runs[r].context, runs[r].node_id) = "failed"
                  /\ runs[r].result.status = "failed"

\* C28 for what validate_config does reject: a custom transform whose
\* expression is missing, is no str or is blank is never evaluated and ends
\* failed
C28_CustomWithoutExpressionRejected ==
    \A r \in DOMAIN runs :
        (/\ runs[r].node_config.transform_type = StrV("custom")
         /\ \/ runs[r].node_config.expression = Absent
            \/ runs[r].node_config.expression.t # "str"
            \/ strip(runs[r].node_config.expression.s) = <<>>) =>
            /\ runs[r].evaluated = <<>>
            /\ runs[r].pc \notin {"resolve", "execute"}
            /\ runs[r].pc = "done" =>
                  /\ Status(runs[r].context, runs[r].node_id) = "failed"
                  /\ runs[r].result.status = "failed"


\* a custom transform whose expression was evaluated and that ended success
C28_CustomEvaluated ==
    \E r \in DOMAIN runs :
        /\ runs[r].node_config.transform_type = StrV("custom")
        /\ runs[r].evaluated # <<>>
        /\ runs[r].pc = "done"
        /\ Status(runs[r].context, runs[r].node_id) = "success"


----------------------------------------------------------------------------
(* ExecutionService.get_execution_logs on the manager's log *)

MaxLogs == 3

LogLevels == {"info", "warning", "error"}

\* the level and the limit of a call: None, a level (debug is the level of
\* no entry), a count
LevelArgs == {None} \cup {StrV(l) : l \in LogLevels \cup {"debug"}}
LimitArgs == {None} \cup {IntV(k) : k \in 0..MaxLogs}

\* logs[-limit:] for limit > 0
LastEntries(logs, limit) ==
    IF limit >= Len(logs) THEN logs
    ELSE SubSeq(logs, Len(logs) - limit + 1, Len(logs))

\* if x: for None, a str and an int
Truthy(x) ==
    CASE x.t = "none" -> FALSE
      [] x.t = "str" -> x.s # <<>>
      [] x.t = "int" -> x.i # 0

\* get_execution_logs
get_execution_logs(s, execution_id, level, limit) ==
    LET logs == Get(s.execution_logs, execution_id, <<>>)
        filtered == IF Truthy(level)
                    THEN SelectSeq(logs, LAMBDA log : <<log.level>> = level.s)
                    ELSE logs
    IN IF Truthy(limit) THEN LastEntries(filtered, limit.i) ELSE filtered

TotalLogs(s) ==
    LET RECURSIVE total(_)
        total(ids) == IF ids = {} THEN 0
                      ELSE LET id == CHOOSE x \in ids : TRUE
                           IN Len(s.execution_logs[id]) + total(ids \ {id})
    IN total(DOMAIN s.execution_logs)

InitLogs ==
    /\ runs = <<>>
    /\ hist = <<>>
    /\ resolved = NoCall
    /\ svc = NewService

\* _add_log appends an entry to the log of an execution
AddLog ==
    \E id \in ExecutionIds, level \in LogLevels :
        /\ TotalLogs(svc) < MaxLogs
        /\ svc' = service_add_log(svc, id, level,
                                  Len(Get(svc.execution_logs, id, <<>>)) + 1)
        /\ UNCHANGED <<runs, hist, resolved>>

\* a call of get_execution_logs; what it returned is kept in last
GetExecutionLogs ==
    \E id \in ExecutionIds, level \in LevelArgs, limit \in LimitArgs :
        /\ svc' = [svc EXCEPT !.last =
                      [op |-> "get_execution_logs", id |-> id,
                       level |-> level, limit |-> limit,
                       result |-> get_execution_logs(svc, id, level, limit)]]
        /\ UNCHANGED <<runs, hist, resolved>>

NextLogs ==
    \/ AddLog
    \/ GetExecutionLogs

SpecLogs == InitLogs /\ [][NextLogs]_vars

\* the places of the entries of logs that the call looks for
Wanted(logs, level) ==
    {i \in 1..Len(logs) : level = None \/ <<logs[i].level>> = level.s}

\* result is the entries of logs at the places of S that are among the last
\* k of S, in the order of logs
IsTailOf(result, logs, S, k) ==
    LET kept == {i \in S : Cardinality({j \in S : j > i}) < k}
    IN /\ Len(result) = Cardinality(kept)
       /\ \A n \in 1..Len(result) :
             \E i \in kept : /\ Cardinality({j \in kept : j <= i}) = n
                             /\ result[n] = logs[i]

\* C29: get_execution_logs changes nothing but returns, in their order, the
\* entries of the execution's log whose level is the level asked for (all
\* of them when no level is given), cut to the last limit entries: with a
\* limit the result has at most limit entries
C29_GetLogsFilteredAndLimited ==
    [][svc'.last.op = "get_execution_logs" /\ svc'.last # svc.last =>
          LET call == svc'.last
              logs == Get(svc.execution_logs, call.id, <<>>)
              S == Wanted(logs, call.level)
          IN /\ svc'.execution_logs = svc.execution_logs
             /\ svc'.executions = svc.executions
             /\ IsTailOf(call.result, logs, S,
                         IF call.limit = None THEN Len(logs) ELSE call.limit.i)
             /\ call.limit # None => Len(call.result) <= call.limit.i]_vars

\* C29 for every limit but 0
C29_GetLogsNonZeroLimit ==
    [][(/\ svc'.last.op = "get_execution_logs" /\ svc'.last # svc.last
        /\ svc'.last.limit # IntV(0)) =>
          LET call == svc'.last
              logs == Get(svc.execution_logs, call.id, <<>>)
              S == Wanted(logs, call.level)
          IN /\ svc'.execution_logs = svc.execution_logs
             /\ svc'.executions = svc.executions
             /\ IsTailOf(call.result, logs, S,
                         IF call.limit = None THEN Len(logs) ELSE call.limit.i)
             /\ call.limit # None => Len(call.result) <= call.limit.i]_vars

\* with the limit 0 the call returns every entry of the level
C29_LimitZeroReturnsAll ==
    [][(/\ svc'.last.op = "get_execution_logs" /\ svc'.last # svc.last
        /\ svc'.last.limit = IntV(0)) =>
          LET call == svc'.last
              logs == Get(svc.execution_logs, call.id, <<>>)
          IN IsTailOf(call.result, logs, Wanted(logs, call.level),
                      Len(logs))]_vars


----------------------------------------------------------------------------
(* OllamaService.generate under tenacity's retry *)

MaxCalls == 2

\* stop=stop_after_attempt(3)
stop_after_attempt == 3

\* what client.post and raise_for_status can do
PostOutcomes == {"ok", "httpx.ConnectError", "httpx.TimeoutException",
                 "httpx.HTTPStatusError 404", "httpx.HTTPStatusError 500",
                 "ValueError"}

\* the classes an exception class derives from, itself included
Bases(cls) ==
    CASE cls = "OllamaConnectionError" ->
            {"OllamaConnectionError", "OllamaServiceError", "Exception"}
      [] cls = "OllamaModelNotFoundError" ->
            {"OllamaModelNotFoundError", "OllamaServiceError", "Exception"}
      [] cls = "OllamaServiceError" -> {"OllamaServiceError", "Exception"}
      [] OTHER -> {cls, "Exception"}

NoException == [cls |-> "", msg |-> "", cause |-> ""]
Exc(cls, msg, cause) == [cls |-> cls, msg |-> msg, cause |-> cause]

\* retry=retry_if_exception_type((httpx.ConnectError, httpx.TimeoutException))
retry_if_exception_type(e) ==
    Bases(e.cls) \cap {"httpx.ConnectError", "httpx.TimeoutException"} # {}

\* the body of generate: one request unless stream is set, and the except
\* clauses that turn what it raised into the service's exceptions
generate(g, o) ==
    LET g1 == [g EXCEPT !.attempt_number = @ + 1]
        g2 == [g1 EXCEPT !.posts = Append(@, o)]
    IN IF g.stream
       THEN [g1 EXCEPT !.pc = "attempted", !.value = "iterator",
                       !.exception = NoException]
       ELSE CASE o = "ok" ->
                   [g2 EXCEPT !.pc = "attempted", !.value = "response",
                              !.exception = NoException]
              [] o = "httpx.ConnectError" ->
                   [g2 EXCEPT !.pc = "attempted", !.exception =
                       Exc("OllamaConnectionError", "Cannot connect to Ollama", o)]
              [] o = "httpx.TimeoutException" ->
                   [g2 EXCEPT !.pc = "attempted", !.exception =
                       Exc("OllamaServiceError", "Request timeout", o)]
              [] o = "httpx.HTTPStatusError 404" ->
                   [g2 EXCEPT !.pc = "attempted", !.exception =
                       Exc("OllamaModelNotFoundError", "Model not found", o)]
              [] o = "httpx.HTTPStatusError 500" ->
                   [g2 EXCEPT !.pc = "attempted", !.exception =
                       Exc("OllamaServiceError", "HTTP error: 500", o)]
              [] OTHER ->
                   [g2 EXCEPT !.pc = "attempted", !.exception =
                       Exc("OllamaServiceError", "Unexpected error", o)]

\* tenacity after an attempt: the value is returned; an exception the retry
\* condition does not take, or the last attempt's, is raised (reraise=True);
\* otherwise the body is called again after the wait
after_attempt(g) ==
    IF g.exception = NoException THEN [g EXCEPT !.pc = "returned"]
    ELSE IF ~retry_if_exception_type(g.exception) THEN [g EXCEPT !.pc = "raised"]
    ELSE IF g.attempt_number >= stop_after_attempt THEN [g EXCEPT !.pc = "raised"]
    ELSE [g EXCEPT !.pc = "call", !.exception = NoException]

NewGenerate(stream) ==
    [stream |-> stream, pc |-> "call", attempt_number |-> 0, posts |-> <<>>,
     value |-> "", exception |-> NoException]

InitOllama ==
    /\ runs = <<>>
    /\ hist = <<>>
    /\ resolved = NoCall
    /\ svc = NoService

\* a caller calls generate
Generate ==
    \E stream \in BOOLEAN :
        /\ Len(runs) < MaxCalls
        /\ runs' = Append(runs, NewGenerate(stream))
        /\ UNCHANGED <<hist, resolved, svc>>

\* one run of the body of generate
Attempt ==
    \E r \in DOMAIN runs, o \in PostOutcomes :
        /\ runs[r].pc = "call"
        /\ runs' = [runs EXCEPT ![r] = generate(runs[r], o)]
        /\ UNCHANGED <<hist, resolved, svc>>

\* the decorator's loop takes the outcome of the body
AfterAttempt ==
    \E r \in DOMAIN runs :
        /\ runs[r].pc = "attempted"
        /\ runs' = [runs EXCEPT ![r] = after_attempt(runs[r])]
        /\ UNCHANGED <<hist, resolved, svc>>

NextOllama ==
    \/ Generate
    \/ Attempt
    \/ AfterAttempt

SpecOllama == InitOllama /\ [][NextOllama]_vars

ConnectionFailures == {"httpx.ConnectError", "httpx.TimeoutException"}

\* C30: a request of generate that fails with a connection error or a
\* timeout is made again, three requests at most: generate makes no more
\* than three requests, it raises for such a failure only when the third
\* request has failed, and a connection error is raised as
\* OllamaConnectionError
C30_BoundedRetries ==
    \A r \in DOMAIN runs :
        /\ Len(runs[r].posts) <= stop_after_attempt
        /\ (/\ runs[r].pc = "raised"
            /\ runs[r].exception.cause \in ConnectionFailures) =>
               /\ Len(runs[r].posts) = stop_after_attempt
               /\ \A i \in 1..Len(runs[r].posts) :
                     runs[r].posts[i] \in ConnectionFailures
               /\ runs[r].exception.cause = "httpx.ConnectError" =>
                     runs[r].exception.cls = "OllamaConnectionError"

\* C30 for what the code does: generate makes one request at most, and
\* what it raises for a failed request is raised after that one request, an
\* OllamaConnectionError for a connection error
C30_SingleAttempt ==
    \A r \in DOMAIN runs :
        /\ Len(runs[r].posts) <= 1
        /\ runs[r].attempt_number <= 1
        /\ (/\ runs[r].pc = "raised"
            /\ runs[r].exception.cause = "httpx.ConnectError") =>
               runs[r].exception.cls = "OllamaConnectionError"


----------------------------------------------------------------------------
\* every node that has started has only predecessors with a status of ok
PredecessorsEnded(c, ok) ==
    \A i \in 1..Len(c.edges) :
        Status(c, c.edges[i][2]) # "absent" =>
            Status(c, c.edges[i][1]) \in ok

\* C31: a node is dispatched only after every one of its predecessors
\* returned a result with the status success: the successors of a node whose
\* result is failed or skipped are never started
C31_OnlySuccessReleases ==
    \A r \in DOMAIN runs : PredecessorsEnded(runs[r], {"success"})

\* C31 for what the code does: the predecessors of a started node have
\* ended success or skipped, never failed
C31_SuccessOrSkippedReleases ==
    \A r \in DOMAIN runs : PredecessorsEnded(runs[r], {"success", "skipped"})


----------------------------------------------------------------------------
\* validate_config of n returned false
ValidationFailed(c, n) ==
    Contains(c.error_msg[n], <<"Invalid configuration for node ", n>>)

\* the execute of n raised
ExecuteRaised(c, n) == Contains(c.error_msg[n], ExecuteError(n))

\* run(n) took an except branch and did all of it: n is failed, its execute
\* returned nothing, no output of n is stored, and when run is over it has
\* logged the error and returned a failed NodeResult with the message
HandledAsFailed(c, n) ==
    /\ Status(c, n) = "failed"
    /\ c.result[n] = NoResult
    /\ n \notin DOMAIN c.node_outputs
    /\ c.npc[n] = "done" =>
          /\ HasLog(c, n, "error")
          /\ n \in DOMAIN c.results
          /\ c.results[n] = ResultOf(n, "failed", None, c.error_msg[n])

\* C32: when validate_config fails, the node is marked failed, the reason is
\* logged, a failed NodeResult is returned, execute is not invoked and no
\* output is stored for the node
C32_ValidationFailureHandled ==
    \A r \in DOMAIN runs :
        \A n \in Range(runs[r].nodes) :
            ValidationFailed(runs[r], n) =>
                /\ HandledAsFailed(runs[r], n)
                /\ runs[r].npc[n] # "executing"

\* C32 when the status callback returns
C32_ValidationFailureHandledNoRaise ==
    \A r \in DOMAIN runs :
        \A n \in Range(runs[r].nodes) :
            (ValidationFailed(runs[r], n) /\ runs[r].cb \in {"none", "ok"}) =>
                /\ HandledAsFailed(runs[r], n)
                /\ runs[r].npc[n] # "executing"

\* C32 whatever the callback does: no execute and no output after a failed
\* validation
C32_NoExecuteAfterFailedValidation ==
    \A r \in DOMAIN runs :
        \A n \in Range(runs[r].nodes) :
            ValidationFailed(runs[r], n) =>
                /\ runs[r].npc[n] # "executing"
                /\ runs[r].result[n] = NoResult
                /\ n \notin DOMAIN runs[r].node_outputs

\* C33: when execute raises, run does not raise: the node is marked failed,
\* an entry of level error is logged for it, no output is stored and a
\* NodeResult with the status failed and the error message is returned
C33_ExecuteErrorHandled ==
    \A r \in DOMAIN runs :
        \A n \in Range(runs[r].nodes) :
            ExecuteRaised(runs[r], n) => HandledAsFailed(runs[r], n)

\* C33 when the status callback returns
C33_ExecuteErrorHandledNoRaise ==
    \A r \in DOMAIN runs :
        \A n \in Range(runs[r].nodes) :
            (ExecuteRaised(runs[r], n) /\ runs[r].cb \in {"none", "ok"}) =>
                HandledAsFailed(runs[r], n)


----------------------------------------------------------------------------
(* ConditionNodeExecutor, run directly on a node configuration *)

MaxConditions == 2

\* the keys of OPERATORS
OPERATORS == {"eq", "ne", "gt", "gte", "lt", "lte", "contains", "in"}

\* the str values of the runs in the order of Python's comparison
StrOrder == <<StrV("Bob"), StrV("other")>>
Place(s) == CHOOSE i \in 1..Len(StrOrder) : StrOrder[i] = s

\* a < b for two values: TypeError unless both are int or both are str
less(a, b) ==
    IF a.t = "int" /\ b.t = "int" THEN Returns(a.i < b.i)
    ELSE IF a.t = "str" /\ b.t = "str" THEN Returns(Place(a) < Place(b))
    ELSE Raises(<<"TypeError">>)

\* the str x occurs in the str y
Infix(x, y) ==
    \E i \in 1..(Len(y) + 1) :
        /\ i + Len(x) - 1 <= Len(y)
        /\ SubSeq(y, i, i + Len(x) - 1) = x

\* b in a: TypeError unless a is a str holding str or a dict
contained(b, a) ==
    IF a.t = "str" THEN IF b.t = "str" THEN Returns(Infix(b.s, a.s))
                        ELSE Raises(<<"TypeError">>)
    ELSE IF a.t = "dict" /\ b.t = "str" THEN Returns(b.s \in DOMAIN a.d)
    ELSE IF a.t = "dict" THEN Returns(FALSE)
    ELSE Raises(<<"TypeError">>)

Not(x) == IF x.raised THEN x ELSE Returns(~x.value)

\* OPERATORS[op_name](actual_value, expected_value)
op_func(op_name, a, b) ==
    CASE op_name = "eq" -> Returns(a = b)
      [] op_name = "ne" -> Returns(a # b)
      [] op_name = "gt" -> less(b, a)
      [] op_name = "gte" -> Not(less(a, b))
      [] op_name = "lt" -> less(a, b)
      [] op_name = "lte" -> Not(less(b, a))
      [] op_name = "contains" -> contained(b, a)
      [] op_name = "in" -> contained(a, b)

\* the field paths, operators and expected values of the conditions; the
\* branch of a condition is named after its place in the list
FieldPaths == {<<"input", ".", "age">>, <<"input", ".", "name">>,
               <<"input", ".", "missing">>}
ExpectedValues == {IntV(30), StrV("Bob")}
Conditions == [field : FieldPaths, operator : OPERATORS \cup {"regex"},
               value : ExpectedValues]
BranchOf(i) == StrOf(<<"branch", ToString(i)>>)

ConditionLists ==
    UNION {[1..k -> [field : FieldPaths, operator : OPERATORS,
                     value : ExpectedValues]] : k \in 1..MaxConditions}
    \cup {<<>>}
    \cup {<<x>> : x \in {y \in Conditions : y.operator = "regex"}}

DefaultBranches ==
    {Absent, StrOf(Render(<<Tok(<<"input", "name">>, FALSE)>>))}

ConditionInput ==
    DictV(Put(Put(EmptyMap, Key("age"), IntV(30)), Key("name"), StrV("Bob")))

\* ConditionNodeExecutor.validate_config for a list of conditions that hold
\* their four fields
condition_validate_config(config) ==
    IF Len(config.conditions) = 0
    THEN Raises(<<"Conditions must be a non-empty list">>)
    ELSE IF \E i \in 1..Len(config.conditions) :
               config.conditions[i].operator \notin OPERATORS
    THEN Raises(<<"unsupported operator">>)
    ELSE IF config.default_branch # Absent
            /\ (config.default_branch.t # "str"
                \/ strip(config.default_branch.s) = <<>>)
    THEN Raises(<<"default_branch must be a non-empty string">>)
    ELSE Returns(TRUE)

\* _get_field_value
get_field_value(field_path, c) == get_nested_value(c, split(field_path, <<>>))

\* the output of a matched condition
MatchedOutput(t, i, actual_value) ==
    LET cond == t.resolved_config.conditions[i]
    IN DictV([k \in {Key("branch"), Key("matched_condition"), Key("field"),
                     Key("actual_value"), Key("expected_value"),
                     Key("operator")} |->
                CASE k = Key("branch") -> BranchOf(i)
                  [] k = Key("matched_condition") -> IntV(i - 1)
                  [] k = Key("field") -> StrOf(cond.field)
                  [] k = Key("actual_value") -> actual_value
                  [] k = Key("expected_value") -> cond.value
                  [] k = Key("operator") -> StrV(cond.operator)])

DefaultOutput(default_branch) ==
    DictV(Put(Put(EmptyMap, Key("branch"), default_branch),
              Key("matched_condition"), None))

\* run after execute returned a success
condition_success(t, output) ==
    [t EXCEPT !.context =
         add_log(set_node_output(set_node_status(@, t.node_id, "success"),
                                 t.node_id, output),
                 "info", "completed successfully", t.node_id),
              !.result = ResultOf(t.node_id, "success", output, <<>>),
              !.pc = "done"]

\* one pass of the loop of execute in which an evaluation error ends the
\* node instead of being skipped
loop_body_error_fails(t) ==
    LET cond == t.resolved_config.conditions[t.i]
        actual_value == get_field_value(cond.field, t.context)
        result == op_func(cond.operator, actual_value, cond.value)
    IN IF result.raised
       THEN transform_failed(t, <<"Execution failed: ">> \o result.msg)
       ELSE IF result.value
       THEN condition_success(
                [t EXCEPT !.context = add_log(@, "info", "Condition matched",
                                              t.node_id)],
                MatchedOutput(t, t.i, actual_value))
       ELSE [t EXCEPT !.i = @ + 1]

\* one pass of the loop of execute, lines 158-206
loop_body(t) ==
    LET cond == t.resolved_config.conditions[t.i]
        actual_value == get_field_value(cond.field, t.context)
        result == op_func(cond.operator, actual_value, cond.value)
    IN IF result.raised
       THEN [t EXCEPT !.context = add_log(@, "warning",
                                          "Condition evaluation error", t.node_id),
                      !.i = @ + 1]
       ELSE IF result.value
       THEN condition_success(
                [t EXCEPT !.context = add_log(@, "info", "Condition matched",
                                              t.node_id)],
                MatchedOutput(t, t.i, actual_value))
       ELSE [t EXCEPT !.i = @ + 1]

\* execute after the loop, lines 208-228: the default branch, or the error
after_loop(t) ==
    LET default_branch == t.resolved_config.default_branch
    IN IF default_branch # Absent /\ Truthy(default_branch)
       THEN condition_success(
                [t EXCEPT !.context = add_log(@, "info", "No conditions matched",
                                              t.node_id)],
                DefaultOutput(default_branch))
       ELSE transform_failed(
                [t EXCEPT !.context = add_log(@, "error",
                     "No conditions matched and no default branch specified",
                     t.node_id)],
                <<"Execution failed: ",
                  "No conditions matched and no default branch specified">>)

\* run up to the loop of execute: status running, validate_config, the
\* configuration resolved (the dicts of a list are left as they are)
condition_run_validate(t) ==
    LET c == add_log(set_node_status(t.context, t.node_id, "running"),
                     "info", "started", t.node_id)
        t1 == [t EXCEPT !.context = c]
        v == condition_validate_config(t.node_config)
    IN IF v.raised
       THEN transform_failed(t1, <<"Configuration validation failed: ">> \o v.msg)
       ELSE [t1 EXCEPT !.resolved_config.default_branch =
                          IF @ = Absent THEN @
                          ELSE StrOf(resolve_variables(c, @.s)),
                       !.context = add_log(c, "info", "Evaluating conditions",
                                           t.node_id),
                       !.pc = "loop", !.i = 1]

NewConditionRun(config) ==
    [node_id |-> "n1", node_config |-> config, resolved_config |-> config,
     context |-> NewContext(<<"n1">>, [n \in {"n1"} |-> "condition"], <<>>,
                            "none", ConditionInput),
     pc |-> "created", i |-> 0, result |-> NoResult]

InitCondition ==
    /\ \E conditions \in ConditionLists, default_branch \in DefaultBranches :
          runs = <<NewConditionRun([conditions |-> conditions,
                                    default_branch |-> default_branch])>>
    /\ hist = <<>>
    /\ resolved = NoCall
    /\ svc = NoService

ConditionValidate ==
    \E r \in DOMAIN runs :
        /\ runs[r].pc = "created"
        /\ TransformStep(r, condition_run_validate(runs[r]))

ConditionEvaluate ==
    \E r \in DOMAIN runs :
        /\ runs[r].pc = "loop"
        /\ runs[r].i <= Len(runs[r].resolved_config.conditions)
        /\ TransformStep(r, loop_body(runs[r]))

ConditionAfterLoop ==
    \E r \in DOMAIN runs :
        /\ runs[r].pc = "loop"
        /\ runs[r].i > Len(runs[r].resolved_config.conditions)
        /\ TransformStep(r, after_loop(runs[r]))

NextCondition ==
    \/ ConditionValidate
    \/ ConditionEvaluate
    \/ ConditionAfterLoop

SpecCondition == InitCondition /\ [][NextCondition]_vars

\* the places of the conditions of t whose operator holds for the actual
\* value of the field and the expected value
Holding(t) ==
    {i \in 1..Len(t.resolved_config.conditions) :
        LET cond == t.resolved_config.conditions[i]
            e == op_func(cond.operator,
                         get_field_value(cond.field, t.context), cond.value)
        IN ~e.raised /\ e.value}

Validated(t) == ~condition_validate_config(t.node_config).raised

\* C34: the result of a condition node whose configuration is valid is that
\* of the first condition, in list order, whose operator holds, a condition
\* whose evaluation raises being passed over: the branch and the place
\* (counted from 0) of that condition; with no such condition the default
\* branch and no matched_condition when default_branch is set, and a failed
\* node otherwise
C34_FirstMatch ==
    \A r \in DOMAIN runs :
        (runs[r].pc = "done" /\ Validated(runs[r])) =>
            LET t == runs[r]
                first == Min(Holding(t))
            IN IF Holding(t) # {}
               THEN /\ t.result.status = "success"
                    /\ t.result.output.d[Key("branch")] = BranchOf(first)
                    /\ t.result.output.d[Key("matched_condition")] = IntV(first - 1)
               ELSE IF t.resolved_config.default_branch # Absent
               THEN /\ t.result.status = "success"
                    /\ t.result.output =
                          DefaultOutput(t.resolved_config.default_branch)
               ELSE t.result.status = "failed"

\* the second condition matched after the evaluation of the first raised
C34_Witness ==
    \E r \in DOMAIN runs :
        /\ runs[r].pc = "done"
        /\ Len(runs[r].resolved_config.conditions) = 2
        /\ op_func(runs[r].resolved_config.conditions[1].operator,
                   get_field_value(runs[r].resolved_config.conditions[1].field,
                                   runs[r].context),
                   runs[r].resolved_config.conditions[1].value).raised
        /\ runs[r].result.status = "success"
        /\ runs[r].result.output.d[Key("matched_condition")] = IntV(1)


----------------------------------------------------------------------------
\* list(context.node_outputs.keys()): the node ids in the order of their
\* insertion, which is the order of the log entries run writes with them
node_outputs_keys(c) ==
    LET stored == SelectSeq(c.logs,
                            LAMBDA e : e.message = "completed successfully")
    IN [i \in 1..Len(stored) |-> stored[i].node_id]

\* the key _get_last_node_output looks up, "" when node_outputs is empty
last_node_id(c) ==
    IF node_outputs_keys(c) = <<>> THEN ""
    ELSE node_outputs_keys(c)[Len(node_outputs_keys(c))]

\* OutputNodeExecutor._get_last_node_output
get_last_node_output(c) ==
    IF last_node_id(c) = "" THEN None ELSE c.node_outputs[last_node_id(c)]

\* the output nodes whose execute runs in the step from c to c2
OutputExecuted(c, c2) ==
    {n \in Range(c.nodes) : /\ c.types[n] = "output"
                            /\ c.npc[n] = "executing"
                            /\ c2.npc[n] # "executing"}

C35_LastStoredSelected ==
    [][\A r \in DOMAIN runs :
          \A n \in OutputExecuted(runs[r], runs'[r]) :
              /\ last_node_id(runs[r]) # n
              /\ last_node_id(runs[r]) # "" =>
                    /\ last_node_id(runs[r]) \in DOMAIN runs[r].node_outputs
                    /\ Status(runs[r], last_node_id(runs[r])) = "success"
                    /\ get_last_node_output(runs[r])
                          = NodeOutput(last_node_id(runs[r]))
              /\ last_node_id(runs[r]) = "" <=>
                    DOMAIN runs[r].node_outputs = {}]_vars


----------------------------------------------------------------------------
\* the keys whose entry differs between the maps f and g
ChangedKeys(f, g) ==
    {k \in DOMAIN f \cup DOMAIN g :
        \/ k \notin DOMAIN f
        \/ k \notin DOMAIN g
        \/ f[k] # g[k]}

\* the nodes whose run takes a step from c to c2 (scheduling a node for the
\* next wave is a step of the engine, not of the node's run)
Running(c, c2) ==
    {n \in Range(c.nodes) : /\ c.npc[n] # c2.npc[n]
                            /\ c2.npc[n] # "scheduled"}

\* C36: a step of the run of node n writes in node_statuses and node_outputs
\* only the entry of n and in variables only nodes.n; outside the runs of the
\* nodes the engine writes none of them but the variable output, on completion
C36_NodeWritesOwnKeys ==
    [][\A r \in DOMAIN runs :
          LET c == runs[r]
              c2 == runs'[r]
          IN /\ Cardinality(Running(c, c2)) <= 1
             /\ ChangedKeys(c.node_statuses, c2.node_statuses)
                   \subseteq Running(c, c2)
             /\ ChangedKeys(c.node_outputs, c2.node_outputs)
                   \subseteq Running(c, c2)
             /\ ChangedKeys(c.variables, c2.variables)
                   \subseteq IF Running(c, c2) = {} THEN {<<"output">>}
                             ELSE {<<"nodes", n>> : n \in Running(c, c2)}]_vars

\* two nodes of one wave have both stored their outputs
C36_Witness ==
    \E r \in DOMAIN runs :
        /\ runs[r].epc = "gather"
        /\ \E i, j \in 1..Len(runs[r].current_batch) :
              /\ i < j
              /\ runs[r].current_batch[i] \in DOMAIN runs[r].node_outputs
              /\ runs[r].current_batch[j] \in DOMAIN runs[r].node_outputs
              /\ <<"nodes", runs[r].current_batch[i]>>
                    \in DOMAIN runs[r].variables
              /\ <<"nodes", runs[r].current_batch[j]>>
                    \in DOMAIN runs[r].variables


----------------------------------------------------------------------------
\* C37: when execute_workflow is over it has returned, and what it returned
\* has the status completed or failed
C37_ReturnsCompletedOrFailed ==
    \A r \in DOMAIN runs :
        Terminated(runs[r]) =>
            /\ runs[r].epc = "returned"
            /\ runs[r].ret.status \in {"completed", "failed"}

\* the same for the runs without a callback or with one that returns
C37_ReturnsWithoutRaisingCallback ==
    \A r \in DOMAIN runs :
        (Terminated(runs[r]) /\ runs[r].cb \in {"none", "ok"}) =>
            /\ runs[r].epc = "returned"
            /\ runs[r].ret.status \in {"completed", "failed"}

\* no node is handed to gather twice: its in-degree reaches zero at most once
C37_StartedAtMostOnce ==
    \A r \in DOMAIN runs :
        \A n \in NodeIds : TimesStarted(hist[r], n) <= 1

\* how far the coroutine of a node's run has come
NodeSteps == <<"scheduled", "running_cb", "startlog_cb", "executing",
               "result_cb", "resultlog_cb", "h_status_cb", "h_log_cb", "done">>

\* how far execute_workflow has come
EngineSteps == <<"start_log", "start_status", "gather", "complete_log",
                 "complete_status", "fail_log", "fail_status", "returned",
                 "raised">>

\* the number of steps the run c has behind it at least: the places passed
\* by the engine's coroutine and by the coroutine of each node
Progress(c) ==
    Cardinality({k \in 1..Len(EngineSteps) :
                    \E l \in k..Len(EngineSteps) : EngineSteps[l] = c.epc})
    + Cardinality({nk \in NodeIds \X (1..Len(NodeSteps)) :
                      \E l \in nk[2]..Len(NodeSteps) :
                          NodeSteps[l] = c.npc[nk[1]]})

\* a run that is not over can take a step, whatever the definition: it
\* stands before start, at a callback, or in gather with a node to start, a
\* node executing, or all results in
C37_NeverStuck ==
    \A r \in DOMAIN runs :
        ~Terminated(runs[r]) =>
            \/ runs[r].epc = "created"
            \/ InCallback(runs[r])
            \/ /\ runs[r].epc = "gather"
               /\ \/ \E n \in NodeIds : NextToStart(runs[r], n)
                  \/ \E n \in NodeIds : runs[r].npc[n] = "executing"
                  \/ BatchDone(runs[r])

\* every step of a run takes it forward: no coroutine comes back to a place
\* it has passed, so a run has at most as many steps as there are places
C37_EveryStepAdvances ==
    [][\A r \in DOMAIN runs :
          runs'[r] # runs[r] => Progress(runs'[r]) > Progress(runs[r])]_vars


----------------------------------------------------------------------------
\* the step is a call of pause_execution or resume_execution
PauseOrResume == /\ svc'.controls # svc.controls
                 /\ svc'.last.op \in {"pause", "resume"}

\* C38: a pause or resume that returns true changes the status of its record,
\* the paused flag and the log of its execution and nothing else: no task,
\* no handle, no run of the engine, no other record
C38_PauseResumeFlagOnly ==
    [][(PauseOrResume /\ svc'.last.result) =>
         LET id == svc'.last.id IN
         /\ runs' = runs
         /\ svc'.tasks = svc.tasks
         /\ svc'.execution_tasks = svc.execution_tasks
         /\ svc'.executions
               = [svc.executions EXCEPT ![id].status = svc'.executions[id].status]
         /\ svc'.execution_controls
               = [svc.execution_controls
                    EXCEPT ![id].paused = svc'.execution_controls[id].paused]
         /\ \A other \in DOMAIN svc.execution_logs \ {id} :
               svc'.execution_logs[other] = svc.execution_logs[other]]_vars

\* on this code no pause and no resume returns true: no call finds a record
\* that is running or paused
C38_NoPauseTakesEffect ==
    [][PauseOrResume => ~svc'.last.result]_vars


----------------------------------------------------------------------------
\* the tasks that take a step of their coroutine between s and s2 though a
\* later submit of their execution_id has put its own task in their place
Superseded(s, s2) ==
    {t \in DOMAIN s.tasks :
        /\ s2.tasks[t].state # s.tasks[t].state
        /\ s.tasks[t].id \in DOMAIN s.execution_tasks
        /\ s.execution_tasks[s.tasks[t].id] # t}

\* C39: a step of the task of an earlier submit leaves the handle of the
\* newer task and the status, output and error of the newer record alone
C39_EarlierTaskLeavesNewer ==
    [][\A t \in Superseded(svc, svc') :
          LET id == svc.tasks[t].id IN
          /\ svc'.execution_tasks = svc.execution_tasks
          /\ svc'.executions[id].status = svc.executions[id].status
          /\ svc'.executions[id].output_data = svc.executions[id].output_data
          /\ svc'.executions[id].error_message
                = svc.executions[id].error_message]_vars

\* a task whose handle is the one execution_tasks holds writes its own
\* record: the record of the latest submit of its execution_id
C39_CurrentTaskWritesOwnRecord ==
    [][\A t \in DOMAIN svc.tasks :
          (/\ svc'.tasks[t].state # svc.tasks[t].state
           /\ svc.tasks[t].id \in DOMAIN svc.execution_tasks
           /\ svc.execution_tasks[svc.tasks[t].id] = t)
          => \A id \in DOMAIN svc.executions \ {svc.tasks[t].id} :
                /\ svc'.executions[id] = svc.executions[id]
                /\ id \in DOMAIN svc.execution_tasks
                      => /\ id \in DOMAIN svc'.execution_tasks
                         /\ svc'.execution_tasks[id]
                               = svc.execution_tasks[id]]_vars


----------------------------------------------------------------------------
\* the manager is quiescent: every task is over and no stop_execution is
\* suspended at `await task`
Quiescent(s) ==
    /\ \A t \in DOMAIN s.tasks : TaskOver(s.tasks[t])
    /\ s.stops = <<>>

\* C40: when the manager is quiescent, execution_tasks holds no handle for
\* an execution whose record is completed, failed or stopped
C40_NoHandleOfTerminalRecord ==
    Quiescent(svc) =>
        \A id \in DOMAIN svc.executions :
            svc.executions[id].status \in TerminalStatuses
                => id \notin DOMAIN svc.execution_tasks

\* the handles left when the manager is quiescent are those of the tasks
\* cancelled before their first step, whose finally never ran
C40_HandleLeftOnlyByUnstartedTask ==
    Quiescent(svc) =>
        \A id \in DOMAIN svc.execution_tasks :
            /\ svc.tasks[svc.execution_tasks[id]].state = "cancelled"
            /\ runs[svc.execution_tasks[id]].epc = "created"

====
